---- MODULE Spec2Model ----
(***************************************************************************)
(* Model of the file-intake pipeline of backupService                      *)
(* (src/services/processFile.js): filename-to-schema resolution, the       *)
(* per-row coerce / validate / insert loop, the bounded fan-out over the   *)
(* files (async.parallelLimit) and the bounded relocation queue            *)
(* (async.queue) that moves failing files into the error directories.      *)
(* Around it: the scheduled cycle of setupScheduler (check the directory,  *)
(* processFiles, zipAndMoveDirectory, emptyTheDirectory), the scheduling   *)
(* config validation and prepareDirectory.                                 *)
(*                                                                         *)
(* Strings that the code takes apart (file names, FILE_FIELD_MAP keys) are *)
(* sequences of one-character strings; a path is a record of a directory   *)
(* and a base name.  A duration is kept in tenths (12.5 is 125).           *)
(***************************************************************************)
EXTENDS Integers, Sequences, FiniteSets, TLC

\* ------------------------------------------------------------------ bounds
\* largest number of entries of the watched directory in one run
MaxFiles == 2
\* largest configured BATCH_SIZE
MaxBatch == 2
\* longest file name, in characters, given to determineFieldMapping
MaxNameLen == 3
\* largest number of FILE_FIELD_MAP entries given to determineFieldMapping
MaxEntries == 2
\* longest field list given to constructDataObject and validateData
MaxFields == 2
\* largest number of entries of the watched directory at a scheduled cycle
MaxCycleFiles == 1
\* the largest number of files in the directory of a run checked for progress
MaxFairFiles == 1
\* the largest number of times the job fires in the life of the process
MaxFirings == 2

\* ------------------------------------------------------- the configuration
sourceZipDirectory == "sourceZipDirectory"
destinationZipDirectory == "destinationZipDirectory"
miscErrorDirectory == "miscErrorDirectory"
dbInsertionErrorDirectory == "dbInsertionErrorDirectory"
fieldConfigErrorDirectory == "fieldConfigErrorDirectory"

ErrorDirectories ==
  {miscErrorDirectory, dbInsertionErrorDirectory, fieldConfigErrorDirectory}

\* FILE_FIELD_MAP in declaration order: key, spacing (part index), fields
FILE_FIELD_MAP ==
  << [key |-> <<"s">>, spacing |-> 0,
      fields |-> <<"date_time", "duration", "count">>],
     [key |-> <<"t">>, spacing |-> 0,
      fields |-> <<"duration", "count">>] >>

\* ------------------------------------------------------------ path helpers
\* path.join(directory, name)
PathJoin(dir, name) == [dir |-> dir, base |-> name]

\* path.basename(p)
PathBasename(p) == p.base

\* ------------------------------------------------- determineFieldMapping
RECURSIVE SplitAcc(_, _, _, _)
SplitAcc(s, d, cur, acc) ==
  IF s = <<>> THEN Append(acc, cur)
  ELSE IF Head(s) = d
       THEN SplitAcc(Tail(s), d, <<>>, Append(acc, cur))
       ELSE SplitAcc(Tail(s), d, Append(cur, Head(s)), acc)

\* String.prototype.split: "a_b" gives <<"a","b">>, "" gives <<"">>
Split(s, d) == SplitAcc(s, d, <<>>, <<>>)

Digits == {"0", "1", "2", "3", "4", "5", "6", "7", "8", "9"}

DigitVal(c) ==
  CASE c = "0" -> 0 [] c = "1" -> 1 [] c = "2" -> 2 [] c = "3" -> 3
    [] c = "4" -> 4 [] c = "5" -> 5 [] c = "6" -> 6 [] c = "7" -> 7
    [] c = "8" -> 8 [] c = "9" -> 9

\* a property key that is a canonical array index ("0", "7", "24")
IsIndexKey(k) ==
  /\ Len(k) > 0
  /\ \A n \in 1..Len(k) : k[n] \in Digits
  /\ (Len(k) > 1 => k[1] # "0")

RECURSIVE KeyVal(_)
KeyVal(k) ==
  IF k = <<>> THEN 0
  ELSE 10 * KeyVal(SubSeq(k, 1, Len(k) - 1)) + DigitVal(k[Len(k)])

RECURSIVE SelectEntries(_, _)
SelectEntries(map, indexKeys) ==
  IF map = <<>> THEN <<>>
  ELSE IF IsIndexKey(Head(map).key) = indexKeys
       THEN <<Head(map)>> \o SelectEntries(Tail(map), indexKeys)
       ELSE SelectEntries(Tail(map), indexKeys)

RECURSIVE SortByKeyVal(_)
SortByKeyVal(es) ==
  IF es = <<>> THEN <<>>
  ELSE LET m == CHOOSE n \in 1..Len(es) :
                  \A o \in 1..Len(es) : KeyVal(es[n].key) <= KeyVal(es[o].key)
           rest == [n \in 1..(Len(es) - 1) |->
                      IF n < m THEN es[n] ELSE es[n + 1]]
       IN <<es[m]>> \o SortByKeyVal(rest)

\* Object.entries: index-like keys first in ascending numeric order, then
\* the other keys in insertion (declaration) order
ObjectEntries(map) ==
  SortByKeyVal(SelectEntries(map, TRUE)) \o SelectEntries(map, FALSE)

\* variant: an entry whose part index is beyond the parts ends the search
RECURSIVE FirstMatch_StopBeyond(_, _)
FirstMatch_StopBeyond(parts, entries) ==
  IF entries = <<>> THEN [found |-> FALSE, fields |-> <<>>]
  ELSE LET e == Head(entries)
           n == e.spacing + 1
       IN IF n \notin 1..Len(parts)
          THEN [found |-> FALSE, fields |-> <<>>]
          ELSE IF parts[n] = e.key
          THEN [found |-> TRUE, fields |-> e.fields]
          ELSE FirstMatch_StopBeyond(parts, Tail(entries))

RECURSIVE FirstMatch(_, _)
FirstMatch(parts, entries) ==
  IF entries = <<>> THEN [found |-> FALSE, fields |-> <<>>]
  ELSE LET e == Head(entries)
           n == e.spacing + 1
       IN IF n \in 1..Len(parts) /\ parts[n] = e.key
          THEN [found |-> TRUE, fields |-> e.fields]
          ELSE FirstMatch(parts, Tail(entries))

\* found = FALSE stands for the null result
determineFieldMapping(filename, map) ==
  FirstMatch(Split(filename, "_"), ObjectEntries(map))

\* ------------------------------------------------------ constructDataObject
\* raw values that occur in the rows of the modelled files
IsoTimestamps == {"2024-01-01T00:00:00Z"}

\* date-fns parseISO: always a Date, an Invalid Date when the text is not
\* an ISO-8601 date/time
parseISO(v) ==
  [time |-> IF v \in IsoTimestamps THEN v ELSE "Invalid Date"]

\* Date.prototype.toISOString: the normalised form, with milliseconds
toISOString(d) ==
  CASE d.time = "2024-01-01T00:00:00Z" -> "2024-01-01T00:00:00.000Z"

\* isValid as imported by the code: zod's parse-result helper,
\* x => x.status === "valid".  A Date has no status property.
isValid(x) == "status" \in DOMAIN x /\ x["status"] = "valid"

\* parseFloat, in tenths
parseFloat(v) ==
  CASE v = "12.5" -> [nan |-> FALSE, val |-> 125]
    [] v = "12abc" -> [nan |-> FALSE, val |-> 120]
    [] v = "3"    -> [nan |-> FALSE, val |-> 30]
    [] v = "0"    -> [nan |-> FALSE, val |-> 0]
    [] OTHER      -> [nan |-> TRUE, val |-> 0]

parseInt(v) ==
  CASE v = "12.5" -> [nan |-> FALSE, val |-> 12]
    [] v = "12abc" -> [nan |-> FALSE, val |-> 12]
    [] v = "3"    -> [nan |-> FALSE, val |-> 3]
    [] v = "0"    -> [nan |-> FALSE, val |-> 0]
    [] OTHER      -> [nan |-> TRUE, val |-> 0]

\* the number 0
Zero == [nan |-> FALSE, val |-> 0]

\* variant: the parsed number is stored as it is
OrZero_NoFallback(x) == x

\* x || 0 on a number: NaN and 0 are falsy
OrZero(x) == IF x.nan \/ x.val = 0 THEN Zero ELSE x

Put(obj, field, value) ==
  [k \in (DOMAIN obj) \cup {field} |-> IF k = field THEN value ELSE obj[k]]

EmptyObject == [k \in {} |-> 0]

RECURSIVE ConstructFrom(_, _, _)
ConstructFrom(fields, contentColumn, dataObject) ==
  IF fields = <<>> THEN [threw |-> FALSE, obj |-> dataObject]
  ELSE
    LET field == Head(fields) IN
    IF field \in DOMAIN contentColumn
    THEN LET value == contentColumn[field] IN
         IF field = "date_time"
         THEN LET date == parseISO(value) IN
              IF isValid(date)
              THEN ConstructFrom(Tail(fields), contentColumn,
                                 Put(dataObject, field, toISOString(date)))
              ELSE [threw |-> TRUE, obj |-> dataObject]
         ELSE IF field = "duration"
         THEN ConstructFrom(Tail(fields), contentColumn,
                            Put(dataObject, field, OrZero(parseFloat(value))))
         ELSE IF field = "count"
         THEN ConstructFrom(Tail(fields), contentColumn,
                            Put(dataObject, field, OrZero(parseInt(value))))
         ELSE ConstructFrom(Tail(fields), contentColumn,
                            Put(dataObject, field, value))
    ELSE ConstructFrom(Tail(fields), contentColumn, dataObject)

\* variant: a field that is not in the row is read as empty text
constructDataObject_DefaultAbsent(fields, contentColumn) ==
  ConstructFrom(fields,
                [k \in (DOMAIN contentColumn)
                         \cup {fields[n] : n \in 1..Len(fields)} |->
                   IF k \in DOMAIN contentColumn THEN contentColumn[k]
                   ELSE ""],
                EmptyObject)

\* threw = TRUE stands for the Error thrown on an invalid date
constructDataObject(fields, contentColumn) ==
  ConstructFrom(fields, contentColumn, EmptyObject)

\* ------------------------------------------------------------- validateData
\* variant: the messages are collected newest first
RECURSIVE MissingFields_Reversed(_, _)
MissingFields_Reversed(dataObject, requiredFields) ==
  IF requiredFields = <<>> THEN <<>>
  ELSE MissingFields_Reversed(dataObject, Tail(requiredFields))
       \o (IF Head(requiredFields) \in DOMAIN dataObject THEN <<>>
           ELSE << <<"Missing required field: ", Head(requiredFields)>> >>)

RECURSIVE MissingFields(_, _)
MissingFields(dataObject, requiredFields) ==
  IF requiredFields = <<>> THEN <<>>
  ELSE (IF Head(requiredFields) \in DOMAIN dataObject THEN <<>>
        ELSE << <<"Missing required field: ", Head(requiredFields)>> >>)
       \o MissingFields(dataObject, Tail(requiredFields))

\* variant: a single missing field is let through
validateData_OneMissingAllowed(dataObject, requiredFields) ==
  LET errors == MissingFields(dataObject, requiredFields)
  IN [isNull |-> ~(Len(errors) > 1), errors |-> errors]

\* isNull = TRUE stands for the null result
validateData(dataObject, requiredFields) ==
  LET errors == MissingFields(dataObject, requiredFields)
  IN [isNull |-> ~(Len(errors) > 0), errors |-> errors]

\* ------------------------------------------------- validateSchedulingConfig
\* A config property is a pair: t is the kind of value (a property that is
\* not in the object reads as undefined), v its text.
Nullish == {"null", "undefined"}

\* variant: a falsy value (0, the empty string) counts as not set
IsSet_Truthy(item) == item.t \notin Nullish /\ item.v \notin {"0", ""}

\* item != null
IsSet(item) == item.t \notin Nullish

RECURSIVE FilterCount(_)
FilterCount(items) ==
  IF items = <<>> THEN 0
  ELSE (IF IsSet(Head(items)) THEN 1 ELSE 0) + FilterCount(Tail(items))

\* threw = TRUE stands for the Error "Invalid scheduling configuration"
validateSchedulingConfig(config) ==
  LET optionsSet ==
        FilterCount(<<config.dailyAt, config.everyXHours,
                      config.everyXMinutes>>)
  IN [threw |-> optionsSet # 1]

\* ------------------------------------------------- the watched directory
\* The files a run can find in the watched directory, in readdir order.
\* rows: what the csv parser yields for the file, in stream order;
\* ending: how the stream ends after those rows: "end", a "parseError" of
\* the csv parser, or a "readError" of the read stream (the entry is a
\* subdirectory, or cannot be read).
DirectoryPool ==
  << [name |-> <<"s", "_", "a">>,
      rows |-> << [date_time |-> "2024-01-01T00:00:00Z",
                   duration |-> "12.5", count |-> "3"] >>,
      ending |-> "end"],
     [name |-> <<"s", "_", "c">>,
      rows |-> << [duration |-> "12.5", count |-> "3"] >>,
      ending |-> "end"],
     [name |-> <<"s", "_", "e">>,
      rows |-> << [date_time |-> "notadate",
                   duration |-> "12.5", count |-> "3"],
                  [duration |-> "12.5", count |-> "3"] >>,
      ending |-> "end"],
     [name |-> <<"t", "_", "d">>,
      rows |-> << [duration |-> "12.5", count |-> "3"],
                  [duration |-> "", count |-> ""] >>,
      ending |-> "end"],
     [name |-> <<"t", "_", "p">>,
      rows |-> << [duration |-> "3", count |-> "0"] >>,
      ending |-> "parseError"],
     [name |-> <<"t", "_", "r">>,
      rows |-> << >>,
      ending |-> "readError"],
     [name |-> <<"u", "_", "f">>,
      rows |-> << [duration |-> "3", count |-> "3"] >>,
      ending |-> "end"] >>

FileIds == 1..Len(DirectoryPool)

Name(i) == DirectoryPool[i].name
Rows(i) == DirectoryPool[i].rows
Ending(i) == DirectoryPool[i].ending

RECURSIVE SortedSeq(_)
SortedSeq(S) ==
  IF S = {} THEN <<>>
  ELSE LET m == CHOOSE x \in S : \A y \in S : x <= y
       IN <<m>> \o SortedSeq(S \ {m})

\* ------------------------------------------------------------------- state
VARIABLES
  pc,          \* position of processFiles
  outcome,     \* the promise returned by processFiles
  BATCH_SIZE,  \* config.BATCH_SIZE
  dirEntries,  \* the entries of sourceZipDirectory when the run starts
  readdirOk,   \* whether the directory can be listed
  files,       \* the result of readdir
  fstate,      \* per file: position of its task, rows taken, parser destroyed
  inflight,    \* per file: rows whose prisma.detection.create is pending
  rowOutcome,  \* per file: what became of each row, in completion order
  inserted,    \* per file: the records the store accepted
  errorQueue,  \* every task pushed on errorQueue, with its status
  fsFiles,     \* the paths that exist on the filesystem
  logged,      \* kinds of log line written
  call,        \* a call of one of the synchronous functions, with its inputs
  ret,         \* what that call returned or threw
  stage,       \* position of handleTaskExecution, the scheduled cycle
  flags,       \* runProcessFiles, runZipAndMove, runEmptyTheDirectory
  trace,       \* the stages the cycle started and ended, in order
  listable,    \* whether isDirectoryNotEmpty can list the directory
  dirResult,   \* the promise returned by isDirectoryNotEmpty
  zipPc,       \* position of zipAndMoveDirectory
  zipLog,      \* what zipAndMoveDirectory met and logged
  dirExists,   \* the configured directories that exist
  ensurePc,    \* per directory: position of ensureDirectoryExists
  prepared,    \* the promise returned by prepareDirectory
  mkdirCalls,  \* the directories fs.ensureDir was called on
  prepLog,     \* what ensureDirectoryExists and prepareDirectory logged
  invocations,      \* the invocations of handleTaskExecution by the job
  jobCancelled,     \* the job was cancelled by schedule.gracefulShutdown
  shutdownWaiters,  \* who awaits gracefulShutdown: an invocation, 0 = SIGINT
  exitCode          \* how the process has ended, "none" while it runs

\* the state of a processFiles run
procVars == <<pc, outcome, BATCH_SIZE, dirEntries, readdirOk, files, fstate,
              inflight, rowOutcome, inserted, errorQueue, fsFiles, logged>>

\* the state outside a processFiles run
callVars == <<call, ret>>

\* the state of a scheduled cycle
cycleVars == <<stage, flags, trace, listable, dirResult, zipPc, zipLog>>

\* the state of prepareDirectory
prepVars == <<dirExists, ensurePc, prepared, mkdirCalls, prepLog>>

\* the state of the scheduler: the job, its invocations, the process
schedVars == <<invocations, jobCancelled, shutdownWaiters, exitCode>>

restVars == <<callVars, cycleVars, prepVars, schedVars>>

vars == <<procVars, restVars>>

\* nothing is going on outside processFiles
\* the five directories prepareDirectory is given
ConfiguredDirectories ==
  {sourceZipDirectory, destinationZipDirectory} \cup ErrorDirectories

\* no scheduled cycle
CycleIdle ==
  /\ stage = "off"
  /\ flags = [runProcessFiles |-> FALSE, runZipAndMove |-> FALSE,
              runEmptyTheDirectory |-> FALSE]
  /\ trace = <<>>
  /\ listable = TRUE
  /\ dirResult = "none"
  /\ zipPc = "none"
  /\ zipLog = {}

\* prepareDirectory has run and is over: the directories exist
PrepIdle ==
  /\ dirExists = ConfiguredDirectories
  /\ ensurePc = [d \in ConfiguredDirectories |-> "none"]
  /\ prepared = "none"
  /\ mkdirCalls = {}
  /\ prepLog = {}

\* the job has not fired and the process runs
SchedIdle ==
  /\ invocations = <<>>
  /\ jobCancelled = FALSE
  /\ shutdownWaiters = {}
  /\ exitCode = "none"

RestIdle ==
  /\ call = [op |-> "none"]
  /\ ret = [status |-> "none"]
  /\ CycleIdle
  /\ PrepIdle
  /\ SchedIdle

\* the process has not been ended by an uncaught exception
Alive == pc # "crashed"

TerminalStates == {"skipped", "completed", "aborted"}
ActiveStates == {"reading", "inserting"}

filePath(i) == PathJoin(sourceZipDirectory, Name(i))

\* determineFieldMapping(file, config) of every file of the pool
MappedFieldsOfPool ==
  [i \in FileIds |-> determineFieldMapping(Name(i), FILE_FIELD_MAP)]

matchedMappedFields(i) == MappedFieldsOfPool[i]

Listed == {files[n] : n \in 1..Len(files)}

ActiveFiles == {i \in FileIds : fstate[i].st \in ActiveStates}

\* errorQueue.length()
QueueLength(q) == Cardinality({t \in 1..Len(q) : q[t].status = "pending"})

\* errorQueue.running()
QueueRunning(q) == Cardinality({t \in 1..Len(q) : q[t].status = "running"})

queueErrorFile(q, path, directoryPath) ==
  LET fileName == PathBasename(path)
      targetPath == PathJoin(directoryPath, fileName)
  IN Append(q, [sourcePath |-> path, targetPath |-> targetPath,
                status |-> "pending", runs |-> 0])

\* the record built for every row of every file of the pool, before
\* validation
RowObjectsOfPool ==
  [i \in FileIds |->
     [r \in 1..Len(Rows(i)) |->
        LET c == constructDataObject(matchedMappedFields(i).fields,
                                     Rows(i)[r])
        IN [threw |-> c.threw,
            obj |-> Put(c.obj, "file_name", PathBasename(filePath(i)))]]]

\* the record built for row r of file i, before validation
RowObject(i, r) == RowObjectsOfPool[i][r]

Init ==
  /\ pc = "start"
  /\ outcome = "pending"
  /\ BATCH_SIZE \in 1..MaxBatch
  /\ dirEntries \in {S \in SUBSET FileIds : Cardinality(S) <= MaxFiles}
  /\ readdirOk \in BOOLEAN
  /\ files = <<>>
  /\ fstate = [i \in FileIds |->
                 [st |-> "pending", row |-> 0, destroyed |-> FALSE]]
  /\ inflight = [i \in FileIds |-> {}]
  /\ rowOutcome = [i \in FileIds |-> <<>>]
  /\ inserted = [i \in FileIds |-> <<>>]
  /\ errorQueue = <<>>
  /\ fsFiles = {filePath(i) : i \in dirEntries}
  /\ logged = {}
  /\ RestIdle

\* ------------------------------------------------- processFiles: listing
\* variant: the error of readdir reaches the caller
ReaddirFail_Rethrow ==
  /\ pc = "start"
  /\ ~readdirOk
  /\ pc' = "done"
  /\ outcome' = "rejected"
  /\ UNCHANGED restVars
  /\ UNCHANGED <<BATCH_SIZE, dirEntries, readdirOk, files, fstate, inflight,
                 rowOutcome, inserted, errorQueue, fsFiles, logged>>

\* readdir rejects: the catch of processFiles logs and the promise resolves
ReaddirFail ==
  /\ pc = "start"
  /\ ~readdirOk
  /\ logged' = logged \cup {"critical"}
  /\ pc' = "done"
  /\ outcome' = "resolved"
  /\ UNCHANGED restVars
  /\ UNCHANGED <<BATCH_SIZE, dirEntries, readdirOk, files, fstate, inflight,
                 rowOutcome, inserted, errorQueue, fsFiles>>

\* variant: no early return on an empty listing
ReaddirEmpty_NoReturn ==
  /\ pc = "start"
  /\ readdirOk
  /\ dirEntries = {}
  /\ files' = <<>>
  /\ pc' = "fanout"
  /\ UNCHANGED restVars
  /\ UNCHANGED <<outcome, BATCH_SIZE, dirEntries, readdirOk, fstate,
                 inflight, rowOutcome, inserted, errorQueue, fsFiles, logged>>

\* no files: log and return
ReaddirEmpty ==
  /\ pc = "start"
  /\ readdirOk
  /\ dirEntries = {}
  /\ files' = <<>>
  /\ logged' = logged \cup {"noFiles"}
  /\ pc' = "done"
  /\ outcome' = "resolved"
  /\ UNCHANGED restVars
  /\ UNCHANGED <<BATCH_SIZE, dirEntries, readdirOk, fstate, inflight,
                 rowOutcome, inserted, errorQueue, fsFiles>>

ReaddirFiles ==
  /\ pc = "start"
  /\ readdirOk
  /\ dirEntries # {}
  /\ files' = SortedSeq(dirEntries)
  /\ pc' = "fanout"
  /\ UNCHANGED restVars
  /\ UNCHANGED <<outcome, BATCH_SIZE, dirEntries, readdirOk, fstate,
                 inflight, rowOutcome, inserted, errorQueue, fsFiles, logged>>

\* ------------------------------------------------ the per-file task
\* variant: every task is started at once (async.parallel)
StartFile_Unlimited(i) ==
  /\ pc = "fanout"
  /\ i \in Listed
  /\ fstate[i].st = "pending"
  /\ \A n \in 1..Len(files) :
        fstate[files[n]].st = "pending" => files[n] >= i
  /\ IF ~matchedMappedFields(i).found
     THEN /\ errorQueue' =
               queueErrorFile(errorQueue, filePath(i),
                              fieldConfigErrorDirectory)
          /\ fstate' = [fstate EXCEPT ![i].st = "skipped"]
     ELSE /\ fstate' = [fstate EXCEPT ![i].st = "reading"]
          /\ UNCHANGED errorQueue
  /\ UNCHANGED restVars
  /\ UNCHANGED <<pc, outcome, BATCH_SIZE, dirEntries, readdirOk, files,
                 inflight, rowOutcome, inserted, fsFiles, logged>>

\* variant: the file without a mapping is queued but not skipped
StartFile_NoReturn(i) ==
  /\ pc = "fanout"
  /\ i \in Listed
  /\ fstate[i].st = "pending"
  /\ \A n \in 1..Len(files) :
        fstate[files[n]].st = "pending" => files[n] >= i
  /\ Cardinality(ActiveFiles) < BATCH_SIZE
  /\ errorQueue' =
       IF ~matchedMappedFields(i).found
       THEN queueErrorFile(errorQueue, filePath(i), fieldConfigErrorDirectory)
       ELSE errorQueue
  /\ fstate' = [fstate EXCEPT ![i].st = "reading"]
  /\ UNCHANGED restVars
  /\ UNCHANGED <<pc, outcome, BATCH_SIZE, dirEntries, readdirOk, files,
                 inflight, rowOutcome, inserted, fsFiles, logged>>

\* variant: a task waiting for an insert gives its slot to the next file
StartFile_InsertFreesSlot(i) ==
  /\ pc = "fanout"
  /\ i \in Listed
  /\ fstate[i].st = "pending"
  /\ \A n \in 1..Len(files) :
        fstate[files[n]].st = "pending" => files[n] >= i
  /\ Cardinality({j \in FileIds : fstate[j].st = "reading"}) < BATCH_SIZE
  /\ IF ~matchedMappedFields(i).found
     THEN /\ errorQueue' =
               queueErrorFile(errorQueue, filePath(i),
                              fieldConfigErrorDirectory)
          /\ fstate' = [fstate EXCEPT ![i].st = "skipped"]
     ELSE /\ fstate' = [fstate EXCEPT ![i].st = "reading"]
          /\ UNCHANGED errorQueue
  /\ UNCHANGED restVars
  /\ UNCHANGED <<pc, outcome, BATCH_SIZE, dirEntries, readdirOk, files,
                 inflight, rowOutcome, inserted, fsFiles, logged>>

\* async.parallelLimit starts the next task, in order, while fewer than
\* BATCH_SIZE are running; the task runs up to its first await
StartFile(i) ==
  /\ pc = "fanout"
  /\ i \in Listed
  /\ fstate[i].st = "pending"
  /\ \A n \in 1..Len(files) :
        fstate[files[n]].st = "pending" => files[n] >= i
  /\ Cardinality(ActiveFiles) < BATCH_SIZE
  /\ IF ~matchedMappedFields(i).found
     THEN /\ errorQueue' =
               queueErrorFile(errorQueue, filePath(i),
                              fieldConfigErrorDirectory)
          /\ fstate' = [fstate EXCEPT ![i].st = "skipped"]
     ELSE /\ fstate' = [fstate EXCEPT ![i].st = "reading"]
          /\ UNCHANGED errorQueue
  /\ UNCHANGED restVars
  /\ UNCHANGED <<pc, outcome, BATCH_SIZE, dirEntries, readdirOk, files,
                 inflight, rowOutcome, inserted, fsFiles, logged>>

\* the loop is waiting for the parser and the parser has a further row
CanTakeRow(i) ==
  /\ pc = "fanout"
  /\ fstate[i].st = "reading"
  /\ ~fstate[i].destroyed
  /\ fstate[i].row < Len(Rows(i))

\* variant: the error of constructDataObject leaves the row loop
RowCoercionError_Abort(i) ==
  LET r == fstate[i].row + 1 IN
  /\ CanTakeRow(i)
  /\ RowObject(i, r).threw
  /\ errorQueue' = queueErrorFile(errorQueue, filePath(i), miscErrorDirectory)
  /\ fstate' = [fstate EXCEPT ![i].row = r, ![i].st = "aborted"]
  /\ rowOutcome' = [rowOutcome EXCEPT
                      ![i] = Append(@, [row |-> r, result |-> "coerceFail"])]
  /\ UNCHANGED restVars
  /\ UNCHANGED <<pc, outcome, BATCH_SIZE, dirEntries, readdirOk, files,
                 inflight, inserted, fsFiles, logged>>

\* constructDataObject throws: queue the file, continue with the next row
RowCoercionError(i) ==
  LET r == fstate[i].row + 1 IN
  /\ CanTakeRow(i)
  /\ RowObject(i, r).threw
  /\ errorQueue' = queueErrorFile(errorQueue, filePath(i), miscErrorDirectory)
  /\ fstate' = [fstate EXCEPT ![i].row = r]
  /\ rowOutcome' = [rowOutcome EXCEPT
                      ![i] = Append(@, [row |-> r, result |-> "coerceFail"])]
  /\ UNCHANGED restVars
  /\ UNCHANGED <<pc, outcome, BATCH_SIZE, dirEntries, readdirOk, files,
                 inflight, inserted, fsFiles, logged>>

\* validateData reports errors: queue the file, continue with the next row
RowValidationError(i) ==
  LET r == fstate[i].row + 1 IN
  /\ CanTakeRow(i)
  /\ ~RowObject(i, r).threw
  /\ ~validateData(RowObject(i, r).obj, matchedMappedFields(i).fields).isNull
  /\ errorQueue' = queueErrorFile(errorQueue, filePath(i), miscErrorDirectory)
  /\ fstate' = [fstate EXCEPT ![i].row = r]
  /\ rowOutcome' = [rowOutcome EXCEPT
                      ![i] = Append(@, [row |-> r, result |-> "invalid"])]
  /\ UNCHANGED restVars
  /\ UNCHANGED <<pc, outcome, BATCH_SIZE, dirEntries, readdirOk, files,
                 inflight, inserted, fsFiles, logged>>

\* variant: the record is handed to the store whatever validateData says
RowInsertCall_Unvalidated(i) ==
  LET r == fstate[i].row + 1 IN
  /\ CanTakeRow(i)
  /\ ~RowObject(i, r).threw
  /\ fstate' = [fstate EXCEPT ![i].row = r, ![i].st = "inserting"]
  /\ inflight' = [inflight EXCEPT ![i] = @ \cup {r}]
  /\ UNCHANGED restVars
  /\ UNCHANGED <<pc, outcome, BATCH_SIZE, dirEntries, readdirOk, files,
                 rowOutcome, inserted, errorQueue, fsFiles, logged>>

\* variant: the insert is started but not awaited
RowInsertCall_NoAwait(i) ==
  LET r == fstate[i].row + 1 IN
  /\ CanTakeRow(i)
  /\ ~RowObject(i, r).threw
  /\ validateData(RowObject(i, r).obj, matchedMappedFields(i).fields).isNull
  /\ fstate' = [fstate EXCEPT ![i].row = r]
  /\ inflight' = [inflight EXCEPT ![i] = @ \cup {r}]
  /\ UNCHANGED restVars
  /\ UNCHANGED <<pc, outcome, BATCH_SIZE, dirEntries, readdirOk, files,
                 rowOutcome, inserted, errorQueue, fsFiles, logged>>

\* the row is valid: call prisma.detection.create and await it
RowInsertCall(i) ==
  LET r == fstate[i].row + 1 IN
  /\ CanTakeRow(i)
  /\ ~RowObject(i, r).threw
  /\ validateData(RowObject(i, r).obj, matchedMappedFields(i).fields).isNull
  /\ fstate' = [fstate EXCEPT ![i].row = r, ![i].st = "inserting"]
  /\ inflight' = [inflight EXCEPT ![i] = @ \cup {r}]
  /\ UNCHANGED restVars
  /\ UNCHANGED <<pc, outcome, BATCH_SIZE, dirEntries, readdirOk, files,
                 rowOutcome, inserted, errorQueue, fsFiles, logged>>

\* the loop resumes when the awaited insert settles
Resume(st) == IF st = "inserting" THEN "reading" ELSE st

\* the store accepts the record
\* variant: a file is queued for relocation after an accepted insert too
InsertOk_Queue(i, r) ==
  /\ Alive
  /\ r \in inflight[i]
  /\ inflight' = [inflight EXCEPT ![i] = @ \ {r}]
  /\ inserted' = [inserted EXCEPT ![i] = Append(@, RowObject(i, r).obj)]
  /\ rowOutcome' = [rowOutcome EXCEPT
                      ![i] = Append(@, [row |-> r, result |-> "inserted"])]
  /\ errorQueue' = queueErrorFile(errorQueue, filePath(i),
                                  dbInsertionErrorDirectory)
  /\ fstate' = [fstate EXCEPT ![i].st = Resume(@)]
  /\ UNCHANGED restVars
  /\ UNCHANGED <<pc, outcome, BATCH_SIZE, dirEntries, readdirOk, files,
                 fsFiles, logged>>

InsertOk(i, r) ==
  /\ Alive
  /\ r \in inflight[i]
  /\ inflight' = [inflight EXCEPT ![i] = @ \ {r}]
  /\ inserted' = [inserted EXCEPT ![i] = Append(@, RowObject(i, r).obj)]
  /\ rowOutcome' = [rowOutcome EXCEPT
                      ![i] = Append(@, [row |-> r, result |-> "inserted"])]
  /\ fstate' = [fstate EXCEPT ![i].st = Resume(@)]
  /\ UNCHANGED restVars
  /\ UNCHANGED <<pc, outcome, BATCH_SIZE, dirEntries, readdirOk, files,
                 errorQueue, fsFiles, logged>>

\* variant: a rejected insert ends the row loop of the file
InsertFail_Abort(i, r) ==
  /\ Alive
  /\ r \in inflight[i]
  /\ inflight' = [inflight EXCEPT ![i] = @ \ {r}]
  /\ errorQueue' =
       queueErrorFile(errorQueue, filePath(i), dbInsertionErrorDirectory)
  /\ rowOutcome' = [rowOutcome EXCEPT
                      ![i] = Append(@, [row |-> r, result |-> "insertFail"])]
  /\ fstate' = [fstate EXCEPT ![i].st = "aborted"]
  /\ UNCHANGED restVars
  /\ UNCHANGED <<pc, outcome, BATCH_SIZE, dirEntries, readdirOk, files,
                 inserted, fsFiles, logged>>

\* variant: a rejected record sends the file to the misc error directory
InsertFail_ToMisc(i, r) ==
  /\ Alive
  /\ r \in inflight[i]
  /\ inflight' = [inflight EXCEPT ![i] = @ \ {r}]
  /\ errorQueue' =
       queueErrorFile(errorQueue, filePath(i), miscErrorDirectory)
  /\ rowOutcome' = [rowOutcome EXCEPT
                      ![i] = Append(@, [row |-> r, result |-> "insertFail"])]
  /\ fstate' = [fstate EXCEPT ![i].st = Resume(@)]
  /\ UNCHANGED restVars
  /\ UNCHANGED <<pc, outcome, BATCH_SIZE, dirEntries, readdirOk, files,
                 inserted, fsFiles, logged>>

\* the store rejects the record: queue the file, continue with the next row
InsertFail(i, r) ==
  /\ Alive
  /\ r \in inflight[i]
  /\ inflight' = [inflight EXCEPT ![i] = @ \ {r}]
  /\ errorQueue' =
       queueErrorFile(errorQueue, filePath(i), dbInsertionErrorDirectory)
  /\ rowOutcome' = [rowOutcome EXCEPT
                      ![i] = Append(@, [row |-> r, result |-> "insertFail"])]
  /\ fstate' = [fstate EXCEPT ![i].st = Resume(@)]
  /\ UNCHANGED restVars
  /\ UNCHANGED <<pc, outcome, BATCH_SIZE, dirEntries, readdirOk, files,
                 inserted, fsFiles, logged>>

\* the stream ends: the loop is left normally
ParserEnd(i) ==
  /\ pc = "fanout"
  /\ fstate[i].st = "reading"
  /\ ~fstate[i].destroyed
  /\ fstate[i].row = Len(Rows(i))
  /\ Ending(i) = "end"
  /\ fstate' = [fstate EXCEPT ![i].st = "completed"]
  /\ UNCHANGED restVars
  /\ UNCHANGED <<pc, outcome, BATCH_SIZE, dirEntries, readdirOk, files,
                 inflight, rowOutcome, inserted, errorQueue, fsFiles, logged>>

\* the parser emits "error": the handler queues the file and destroys the
\* parser.  The parser reads ahead of the loop, so the event can come while
\* rows it has already parsed are still waiting to be taken.
ParserError(i) ==
  /\ pc = "fanout"
  /\ fstate[i].st \in ActiveStates
  /\ ~fstate[i].destroyed
  /\ Ending(i) = "parseError"
  /\ errorQueue' = queueErrorFile(errorQueue, filePath(i), miscErrorDirectory)
  /\ fstate' = [fstate EXCEPT ![i].destroyed = TRUE]
  /\ UNCHANGED restVars
  /\ UNCHANGED <<pc, outcome, BATCH_SIZE, dirEntries, readdirOk, files,
                 inflight, rowOutcome, inserted, fsFiles, logged>>

\* variant: the error thrown by the loop leaves the file task, parallelLimit
\* rejects at once and the catch of processFiles ends the run
IteratorThrow_Propagate(i) ==
  /\ pc = "fanout"
  /\ fstate[i].st = "reading"
  /\ fstate[i].destroyed
  /\ fstate' = [fstate EXCEPT ![i].st = "aborted"]
  /\ logged' = logged \cup {"critical"}
  /\ pc' = "done"
  /\ outcome' = "resolved"
  /\ UNCHANGED restVars
  /\ UNCHANGED <<BATCH_SIZE, dirEntries, readdirOk, files,
                 inflight, rowOutcome, inserted, errorQueue, fsFiles>>

\* the for await loop finds the parser destroyed with an error: it throws
\* and the catch of the file task logs it
IteratorThrow(i) ==
  /\ pc = "fanout"
  /\ fstate[i].st = "reading"
  /\ fstate[i].destroyed
  /\ fstate' = [fstate EXCEPT ![i].st = "aborted"]
  /\ UNCHANGED restVars
  /\ UNCHANGED <<pc, outcome, BATCH_SIZE, dirEntries, readdirOk, files,
                 inflight, rowOutcome, inserted, errorQueue, fsFiles, logged>>

\* the read stream emits "error": it has no listener (pipe forwards no
\* error to the parser), the error is thrown as an uncaught exception and
\* ends the process
ReadStreamError(i) ==
  /\ pc = "fanout"
  /\ fstate[i].st = "reading"
  /\ Ending(i) = "readError"
  /\ pc' = "crashed"
  /\ UNCHANGED restVars
  /\ UNCHANGED <<outcome, BATCH_SIZE, dirEntries, readdirOk, files, fstate,
                 inflight, rowOutcome, inserted, errorQueue, fsFiles, logged>>

\* ------------------------------------------------ the errorQueue worker
\* variant: the queue starts a worker for every pending task
WorkerStart_Unbounded(t) ==
  /\ Alive
  /\ t \in 1..Len(errorQueue)
  /\ errorQueue[t].status = "pending"
  /\ \A u \in 1..(t - 1) : errorQueue[u].status # "pending"
  /\ errorQueue' = [errorQueue EXCEPT ![t].status = "running",
                                      ![t].runs = @ + 1]
  /\ UNCHANGED restVars
  /\ UNCHANGED <<pc, outcome, BATCH_SIZE, dirEntries, readdirOk, files,
                 fstate, inflight, rowOutcome, inserted, fsFiles, logged>>

\* the queue hands its oldest pending task to a worker while fewer than
\* BATCH_SIZE workers are running; the worker calls fs.move
WorkerStart(t) ==
  /\ Alive
  /\ t \in 1..Len(errorQueue)
  /\ errorQueue[t].status = "pending"
  /\ \A u \in 1..(t - 1) : errorQueue[u].status # "pending"
  /\ QueueRunning(errorQueue) < BATCH_SIZE
  /\ errorQueue' = [errorQueue EXCEPT ![t].status = "running",
                                      ![t].runs = @ + 1]
  /\ UNCHANGED restVars
  /\ UNCHANGED <<pc, outcome, BATCH_SIZE, dirEntries, readdirOk, files,
                 fstate, inflight, rowOutcome, inserted, fsFiles, logged>>

\* variant: the completion of the last task does not run the drain callback
AfterTask_NoWake(q) == UNCHANGED <<pc, outcome>>

\* the drain callback runs when the last task of the queue has finished;
\* processFiles, if it awaits the drain, then returns
AfterTask(q) ==
  IF pc = "draining" /\ QueueLength(q) + QueueRunning(q) = 0
  THEN /\ pc' = "done"
       /\ outcome' = "resolved"
  ELSE UNCHANGED <<pc, outcome>>

\* variant: the source is removed and nothing is written at the target
MoveOk_Unlink(t) ==
  /\ Alive
  /\ t \in 1..Len(errorQueue)
  /\ errorQueue[t].status = "running"
  /\ errorQueue[t].sourcePath \in fsFiles
  /\ errorQueue[t].targetPath \notin fsFiles
  /\ fsFiles' = fsFiles \ {errorQueue[t].sourcePath}
  /\ errorQueue' = [errorQueue EXCEPT ![t].status = "moved"]
  /\ AfterTask(errorQueue')
  /\ UNCHANGED restVars
  /\ UNCHANGED <<BATCH_SIZE, dirEntries, readdirOk, files, fstate, inflight,
                 rowOutcome, inserted, logged>>

\* fs.move succeeds: the source exists and the target does not
MoveOk(t) ==
  /\ Alive
  /\ t \in 1..Len(errorQueue)
  /\ errorQueue[t].status = "running"
  /\ errorQueue[t].sourcePath \in fsFiles
  /\ errorQueue[t].targetPath \notin fsFiles
  /\ fsFiles' = (fsFiles \ {errorQueue[t].sourcePath})
                  \cup {errorQueue[t].targetPath}
  /\ errorQueue' = [errorQueue EXCEPT ![t].status = "moved"]
  /\ AfterTask(errorQueue')
  /\ UNCHANGED restVars
  /\ UNCHANGED <<BATCH_SIZE, dirEntries, readdirOk, files, fstate, inflight,
                 rowOutcome, inserted, logged>>

\* variant: the error of fs.move leaves the worker and ends the run
MoveFail_Rethrow(t) ==
  /\ Alive
  /\ t \in 1..Len(errorQueue)
  /\ errorQueue[t].status = "running"
  /\ ~(/\ errorQueue[t].sourcePath \in fsFiles
       /\ errorQueue[t].targetPath \notin fsFiles)
  /\ errorQueue' = [errorQueue EXCEPT ![t].status = "failed"]
  /\ logged' = logged \cup {"critical"}
  /\ pc' = "done"
  /\ outcome' = "resolved"
  /\ UNCHANGED restVars
  /\ UNCHANGED <<BATCH_SIZE, dirEntries, readdirOk, files, fstate, inflight,
                 rowOutcome, inserted, fsFiles>>

\* variant: a task whose move failed is put back into the queue
MoveFail_Retry(t) ==
  /\ Alive
  /\ t \in 1..Len(errorQueue)
  /\ errorQueue[t].status = "running"
  /\ ~(/\ errorQueue[t].sourcePath \in fsFiles
       /\ errorQueue[t].targetPath \notin fsFiles)
  /\ errorQueue' = [errorQueue EXCEPT ![t].status = "pending"]
  /\ logged' = logged \cup {"moveFailed"}
  /\ UNCHANGED restVars
  /\ UNCHANGED <<pc, outcome, BATCH_SIZE, dirEntries, readdirOk, files,
                 fstate, inflight, rowOutcome, inserted, fsFiles>>

\* fs.move rejects: the worker logs the error and swallows it
MoveFail(t) ==
  /\ Alive
  /\ t \in 1..Len(errorQueue)
  /\ errorQueue[t].status = "running"
  /\ ~(/\ errorQueue[t].sourcePath \in fsFiles
       /\ errorQueue[t].targetPath \notin fsFiles)
  /\ errorQueue' = [errorQueue EXCEPT ![t].status = "failed"]
  /\ logged' = logged \cup {"moveFailed"}
  /\ AfterTask(errorQueue')
  /\ UNCHANGED restVars
  /\ UNCHANGED <<BATCH_SIZE, dirEntries, readdirOk, files, fstate, inflight,
                 rowOutcome, inserted, fsFiles>>

\* ------------------------------------------------ processFiles: the end
FanoutDone ==
  /\ pc = "fanout"
  /\ \A i \in Listed : fstate[i].st \in TerminalStates

\* variant: the drain is not awaited
AwaitDrain_NoWait ==
  /\ FanoutDone
  /\ QueueLength(errorQueue) + QueueRunning(errorQueue) > 0
  /\ pc' = "done"
  /\ outcome' = "resolved"
  /\ UNCHANGED restVars
  /\ UNCHANGED <<BATCH_SIZE, dirEntries, readdirOk, files, fstate,
                 inflight, rowOutcome, inserted, errorQueue, fsFiles, logged>>

\* parallelLimit has resolved and the queue is not idle: await the drain
AwaitDrain ==
  /\ FanoutDone
  /\ QueueLength(errorQueue) + QueueRunning(errorQueue) > 0
  /\ pc' = "draining"
  /\ UNCHANGED restVars
  /\ UNCHANGED <<outcome, BATCH_SIZE, dirEntries, readdirOk, files, fstate,
                 inflight, rowOutcome, inserted, errorQueue, fsFiles, logged>>

\* parallelLimit has resolved and the queue is idle: return
SkipDrain ==
  /\ FanoutDone
  /\ ~(QueueLength(errorQueue) + QueueRunning(errorQueue) > 0)
  /\ pc' = "done"
  /\ outcome' = "resolved"
  /\ UNCHANGED restVars
  /\ UNCHANGED <<BATCH_SIZE, dirEntries, readdirOk, files, fstate, inflight,
                 rowOutcome, inserted, errorQueue, fsFiles, logged>>

Next ==
  \/ ReaddirFail
  \/ ReaddirEmpty
  \/ ReaddirFiles
  \/ \E i \in FileIds : StartFile(i)
  \/ \E i \in FileIds : RowCoercionError(i)
  \/ \E i \in FileIds : RowValidationError(i)
  \/ \E i \in FileIds : RowInsertCall(i)
  \/ \E i \in FileIds : \E r \in 1..Len(Rows(i)) : InsertOk(i, r)
  \/ \E i \in FileIds : \E r \in 1..Len(Rows(i)) : InsertFail(i, r)
  \/ \E i \in FileIds : ParserEnd(i)
  \/ \E i \in FileIds : ParserError(i)
  \/ \E i \in FileIds : IteratorThrow(i)
  \/ \E i \in FileIds : ReadStreamError(i)
  \/ \E t \in 1..Len(errorQueue) : WorkerStart(t)
  \/ \E t \in 1..Len(errorQueue) : MoveOk(t)
  \/ \E t \in 1..Len(errorQueue) : MoveFail(t)
  \/ AwaitDrain
  \/ SkipDrain

Spec == Init /\ [][Next]_vars

\* the event loop runs what is ready: a pending insert, move or read returns,
\* a callback that can run does run
InitFair ==
  /\ Init
  /\ Cardinality(dirEntries) <= MaxFairFiles

SpecFair == InitFair /\ [][Next]_vars /\ WF_vars(Next)

\* ================================================ the synchronous functions
\* determineFieldMapping, validateData, constructDataObject and
\* validateSchedulingConfig, each called once on inputs drawn from small sets

\* no processFiles run is going on
ProcIdle ==
  /\ pc = "idle"
  /\ outcome = "pending"
  /\ BATCH_SIZE = 1
  /\ dirEntries = {}
  /\ readdirOk = TRUE
  /\ files = <<>>
  /\ fstate = [i \in FileIds |->
                 [st |-> "pending", row |-> 0, destroyed |-> FALSE]]
  /\ inflight = [i \in FileIds |-> {}]
  /\ rowOutcome = [i \in FileIds |-> <<>>]
  /\ inserted = [i \in FileIds |-> <<>>]
  /\ errorQueue = <<>>
  /\ fsFiles = {}
  /\ logged = {}

SeqsUpTo(S, n) == UNION {[1..k -> S] : k \in 0..n}

\* file names: text over s, 2 and the separator
FileNames == SeqsUpTo({"s", "2", "_"}, MaxNameLen)

MapEntries ==
  [key : {<<"s">>, <<"2">>}, spacing : 0..2,
   fields : {<<"date_time">>, <<"count">>}]

\* the keys of an object are distinct
FieldMaps ==
  {m \in SeqsUpTo(MapEntries, MaxEntries) :
     \A a, b \in 1..Len(m) : a # b => m[a].key # m[b].key}

FieldNames == {"date_time", "duration", "count", "region"}

FieldLists == SeqsUpTo(FieldNames, MaxFields)

\* the Records validateData is given: any keys, the values do not matter
DataObjects == {[k \in K |-> "v"] : K \in SUBSET FieldNames}

\* the raw text a column of a row can hold
RawValuesOf ==
  [k \in FieldNames |->
     CASE k = "date_time" -> {"2024-01-01T00:00:00Z", "notadate", ""}
       [] k = "duration"  -> {"12.5", "abc", ""}
       [] k = "count"     -> {"3", "12abc", "abc", ""}
       [] OTHER           -> {"abc"}]

RawRows ==
  UNION {{r \in [K -> UNION {RawValuesOf[k] : k \in K}] :
            \A k \in K : r[k] \in RawValuesOf[k]} : K \in SUBSET FieldNames}

\* the values a property of the scheduling config can have
OptionValues ==
  {[t |-> "undefined", v |-> "undefined"], [t |-> "null", v |-> "null"],
   [t |-> "string", v |-> "02:00"], [t |-> "string", v |-> ""],
   [t |-> "number", v |-> "2"], [t |-> "number", v |-> "0"]}

SchedulingConfigs ==
  [dailyAt : OptionValues, everyXHours : OptionValues,
   everyXMinutes : OptionValues, BATCH_SIZE : OptionValues]

InitPure ==
  /\ ProcIdle
  /\ CycleIdle
  /\ PrepIdle
  /\ SchedIdle
  /\ ret = [status |-> "none"]
  /\ \/ \E f \in FileNames, m \in FieldMaps :
          call = [op |-> "determineFieldMapping", filename |-> f, map |-> m]
     \/ \E d \in DataObjects, q \in FieldLists :
          call = [op |-> "validateData", dataObject |-> d,
                  requiredFields |-> q]
     \/ \E q \in FieldLists, r \in RawRows :
          call = [op |-> "constructDataObject", fields |-> q,
                  contentColumn |-> r]
     \/ \E c \in SchedulingConfigs :
          call = [op |-> "validateSchedulingConfig", config |-> c]

CallDetermineFieldMapping ==
  /\ call.op = "determineFieldMapping"
  /\ ret.status = "none"
  /\ ret' = [status |-> "returned",
             value |-> determineFieldMapping(call.filename, call.map)]
  /\ UNCHANGED <<call, procVars, cycleVars, prepVars, schedVars>>

CallValidateData ==
  /\ call.op = "validateData"
  /\ ret.status = "none"
  /\ ret' = [status |-> "returned",
             value |-> validateData(call.dataObject, call.requiredFields)]
  /\ UNCHANGED <<call, procVars, cycleVars, prepVars, schedVars>>

CallConstructDataObject ==
  /\ call.op = "constructDataObject"
  /\ ret.status = "none"
  /\ LET c == constructDataObject(call.fields, call.contentColumn)
     IN ret' = IF c.threw THEN [status |-> "threw"]
               ELSE [status |-> "returned", value |-> c.obj]
  /\ UNCHANGED <<call, procVars, cycleVars, prepVars, schedVars>>

CallValidateSchedulingConfig ==
  /\ call.op = "validateSchedulingConfig"
  /\ ret.status = "none"
  /\ ret' = IF validateSchedulingConfig(call.config).threw
            THEN [status |-> "threw"]
            ELSE [status |-> "returned"]
  /\ UNCHANGED <<call, procVars, cycleVars, prepVars, schedVars>>

NextPure ==
  \/ CallDetermineFieldMapping
  \/ CallValidateData
  \/ CallConstructDataObject
  \/ CallValidateSchedulingConfig

SpecPure == InitPure /\ [][NextPure]_vars

\* ===================================================== the scheduled cycle
\* handleTaskExecution of setupScheduler, fired once by node-schedule

\* the stages of a cycle, in the order of the code
StageOrder == <<"processFiles", "zipAndMoveDirectory", "emptyTheDirectory">>

FlagOf(s) ==
  CASE s = "processFiles"        -> "runProcessFiles"
    [] s = "zipAndMoveDirectory" -> "runZipAndMove"
    [] s = "emptyTheDirectory"   -> "runEmptyTheDirectory"

StageIndex(s) ==
  IF \E n \in 1..3 : StageOrder[n] = s
  THEN CHOOSE n \in 1..3 : StageOrder[n] = s
  ELSE 0

\* the next stage whose flag is set, or the end of the cycle
Target(from) ==
  LET later == {n \in 1..3 : n > StageIndex(from) /\ flags[FlagOf(StageOrder[n])]}
  IN IF later = {} THEN "completed"
     ELSE StageOrder[CHOOSE n \in later : \A m \in later : n <= m]

\* the handler runs on from the end of `from` to its next await
Proceed(from) ==
  LET to == Target(from) IN
  /\ stage' = to
  /\ trace' = (IF StageIndex(from) > 0
               THEN Append(trace, [stage |-> from, ev |-> "end"])
               ELSE trace)
              \o (IF StageIndex(to) > 0
                  THEN << [stage |-> to, ev |-> "start"] >>
                  ELSE <<>>)
  /\ pc' = IF to = "processFiles" THEN "start" ELSE pc
  /\ zipPc' = IF to = "zipAndMoveDirectory" THEN "ensure" ELSE zipPc

\* the entries of the watched directory
SourceEntries == {p \in fsFiles : p.dir = sourceZipDirectory}

\* path.join(sourceZipDirectory, '..', zipFilename)
zipPath == [dir |-> "sourceZipDirectory/..", base |-> <<"backup", ".zip">>]

destinationFilePath == PathJoin(destinationZipDirectory, PathBasename(zipPath))

\* what an earlier cycle can have left in miscErrorDirectory: nothing, or a
\* quarantined file with the name of a file that has arrived again
EarlierCopies(entries) ==
  {{}} \cup {{PathJoin(miscErrorDirectory, Name(i))} : i \in entries}

InitCycle ==
  /\ pc = "idle"
  /\ outcome = "pending"
  /\ BATCH_SIZE \in 1..MaxBatch
  /\ dirEntries \in {S \in SUBSET FileIds : Cardinality(S) <= MaxCycleFiles}
  /\ readdirOk \in BOOLEAN
  /\ files = <<>>
  /\ fstate = [i \in FileIds |->
                 [st |-> "pending", row |-> 0, destroyed |-> FALSE]]
  /\ inflight = [i \in FileIds |-> {}]
  /\ rowOutcome = [i \in FileIds |-> <<>>]
  /\ inserted = [i \in FileIds |-> <<>>]
  /\ errorQueue = <<>>
  /\ fsFiles \in {{filePath(i) : i \in dirEntries} \cup old :
                   old \in EarlierCopies(dirEntries)}
  /\ logged = {}
  /\ call = [op |-> "none"]
  /\ ret = [status |-> "none"]
  /\ stage = "scheduled"
  /\ flags \in [{"runProcessFiles", "runZipAndMove", "runEmptyTheDirectory"}
                  -> BOOLEAN]
  /\ trace = <<>>
  /\ listable \in BOOLEAN
  /\ dirResult = "none"
  /\ zipPc = "none"
  /\ zipLog = {}
  /\ SchedIdle
  /\ dirExists \in {ConfiguredDirectories,
                    ConfiguredDirectories \ {destinationZipDirectory}}
  /\ ensurePc = [d \in ConfiguredDirectories |-> "none"]
  /\ prepared = "none"
  /\ mkdirCalls = {}
  /\ prepLog = {}

\* what a step of the cycle outside processFiles leaves alone
procRest == <<outcome, BATCH_SIZE, dirEntries, readdirOk, files, fstate,
              inflight, rowOutcome, inserted, errorQueue, logged>>

prepRest == <<ensurePc, prepared, mkdirCalls, prepLog>>

\* the job fires: handleTaskExecution calls isDirectoryNotEmpty
CycleFire ==
  /\ stage = "scheduled"
  /\ stage' = "checking"
  /\ UNCHANGED <<flags, trace, listable, dirResult, zipPc, zipLog>>
  /\ UNCHANGED <<procVars, callVars, prepVars, schedVars>>

\* readdir lists the directory: resolve(files.length > 0)
CheckResolves ==
  /\ stage = "checking"
  /\ listable
  /\ IF SourceEntries # {}
     THEN /\ dirResult' = "true"
          /\ Proceed("checking")
     ELSE /\ dirResult' = "false"
          /\ stage' = "skipped"
          /\ UNCHANGED <<trace, pc, zipPc>>
  /\ UNCHANGED <<flags, listable, zipLog, fsFiles>>
  /\ UNCHANGED <<procRest, callVars, prepVars, schedVars>>

\* variant: an error of readdir is swallowed and reads as an empty directory
CheckRejects_ResolvesFalse ==
  /\ stage = "checking"
  /\ ~listable
  /\ dirResult' = "false"
  /\ stage' = "skipped"
  /\ UNCHANGED <<flags, trace, listable, zipPc, zipLog>>
  /\ UNCHANGED <<procVars, callVars, prepVars, schedVars>>

\* readdir fails: reject(err); the handler's catch is entered (the error is
\* logged, gracefulShutdown is called and awaited)
CheckRejects ==
  /\ stage = "checking"
  /\ ~listable
  /\ dirResult' = "rejected"
  /\ stage' = "caught"
  /\ UNCHANGED <<flags, trace, listable, zipPc, zipLog>>
  /\ UNCHANGED <<procVars, callVars, prepVars, schedVars>>

\* variant: processFiles is called without await
ProcessFilesReturns_NoAwait ==
  /\ stage = "processFiles"
  /\ Proceed("processFiles")
  /\ UNCHANGED <<flags, listable, dirResult, zipLog, fsFiles>>
  /\ UNCHANGED <<procRest, callVars, prepVars, schedVars>>

\* variant: a run that ended through its critical catch reaches the catch
\* of the handler
ProcessFilesReturns_ExitOnCritical ==
  /\ stage = "processFiles"
  /\ pc = "done"
  /\ outcome = "resolved"
  /\ IF "critical" \in logged
     THEN /\ stage' = "caught"
          /\ UNCHANGED <<trace, pc, zipPc>>
     ELSE Proceed("processFiles")
  /\ UNCHANGED <<flags, listable, dirResult, zipLog, fsFiles>>
  /\ UNCHANGED <<procRest, callVars, prepVars, schedVars>>

\* await processFiles(config) resumes
ProcessFilesReturns ==
  /\ stage = "processFiles"
  /\ pc = "done"
  /\ outcome = "resolved"
  /\ Proceed("processFiles")
  /\ UNCHANGED <<flags, listable, dirResult, zipLog, fsFiles>>
  /\ UNCHANGED <<procRest, callVars, prepVars, schedVars>>

\* ------------------------------------------------------ zipAndMoveDirectory
\* a step inside zipAndMoveDirectory: the cycle stays in its stage
ZipStep ==
  /\ stage = "zipAndMoveDirectory"
  /\ UNCHANGED <<stage, flags, trace, listable, dirResult>>
  /\ UNCHANGED <<pc, procRest, callVars, prepRest, schedVars>>

\* the catch of zipAndMoveDirectory: the error is logged, the function returns
ZipCaught(failure) ==
  /\ zipLog' = zipLog \cup {failure, "log: Failed to zip folder or move zip file"}
  /\ zipPc' = "returned"

\* ensureDirectoryExists(destinationZipDirectory) resolves
ZipEnsureOk ==
  /\ ZipStep
  /\ zipPc = "ensure"
  /\ dirExists' = dirExists \cup {destinationZipDirectory}
  /\ zipPc' = "readdir"
  /\ UNCHANGED <<zipLog, fsFiles>>

\* fs.ensureDir of the absent destination fails
ZipEnsureFail ==
  /\ ZipStep
  /\ zipPc = "ensure"
  /\ destinationZipDirectory \notin dirExists
  /\ ZipCaught("ensureDirectoryExists rejected")
  /\ UNCHANGED <<dirExists, fsFiles>>

\* zipTheDirectory: readdir rejects
ZipReaddirFail ==
  /\ ZipStep
  /\ zipPc = "readdir"
  /\ ZipCaught("readdir rejected")
  /\ UNCHANGED <<dirExists, fsFiles>>

\* zipTheDirectory: nothing to zip, it returns null
ZipReaddirEmpty ==
  /\ ZipStep
  /\ zipPc = "readdir"
  /\ SourceEntries = {}
  /\ zipLog' = zipLog \cup {"zipPath is null", "log: Not require to create a zip file"}
  /\ zipPc' = "returned"
  /\ UNCHANGED <<dirExists, fsFiles>>

\* zipTheDirectory: the archive is started
ZipReaddirFiles ==
  /\ ZipStep
  /\ zipPc = "readdir"
  /\ SourceEntries # {}
  /\ zipPc' = "archiving"
  /\ UNCHANGED <<zipLog, dirExists, fsFiles>>

\* output 'close': resolve(zipPath); moveZipFile is called
ZipArchiveClose ==
  /\ ZipStep
  /\ zipPc = "archiving"
  /\ fsFiles' = fsFiles \cup {zipPath}
  /\ zipLog' = zipLog \cup {"moveZipFile called"}
  /\ zipPc' = "moving"
  /\ UNCHANGED dirExists

\* archive 'error', or a 'warning' other than ENOENT: reject(err)
ZipArchiveError ==
  /\ ZipStep
  /\ zipPc = "archiving"
  /\ fsFiles' = fsFiles \cup {zipPath}
  /\ ZipCaught("archive error")
  /\ UNCHANGED dirExists

\* 'error' of the output write stream: it has no listener, the error is
\* thrown as an uncaught exception and ends the process
ZipOutputError ==
  /\ stage = "zipAndMoveDirectory"
  /\ zipPc = "archiving"
  /\ zipLog' = zipLog \cup {"output error"}
  /\ stage' = "crashed"
  /\ UNCHANGED <<flags, trace, listable, dirResult, zipPc>>
  /\ UNCHANGED <<procVars, callVars, prepVars, schedVars>>

\* moveZipFile: fs.move succeeds
ZipMoveOk ==
  /\ ZipStep
  /\ zipPc = "moving"
  /\ zipPath \in fsFiles
  /\ destinationFilePath \notin fsFiles
  /\ fsFiles' = (fsFiles \ {zipPath}) \cup {destinationFilePath}
  /\ zipLog' = zipLog \cup {"log: Folder zipping and moving completed"}
  /\ zipPc' = "returned"
  /\ UNCHANGED dirExists

\* moveZipFile: fs.move fails, the error is logged and thrown again
ZipMoveFail ==
  /\ ZipStep
  /\ zipPc = "moving"
  /\ ZipCaught("moveZipFile rejected")
  /\ UNCHANGED <<dirExists, fsFiles>>

\* await zipAndMoveDirectory(...) resumes
ZipReturns ==
  /\ stage = "zipAndMoveDirectory"
  /\ zipPc = "returned"
  /\ Proceed("zipAndMoveDirectory")
  /\ UNCHANGED <<flags, listable, dirResult, zipLog, fsFiles>>
  /\ UNCHANGED <<procRest, callVars, prepVars, schedVars>>

\* -------------------------------------------------------- emptyTheDirectory
\* fs.emptyDir resolves: the directory has no entry left
EmptyOk ==
  /\ stage = "emptyTheDirectory"
  /\ fsFiles' = fsFiles \ SourceEntries
  /\ Proceed("emptyTheDirectory")
  /\ UNCHANGED <<flags, listable, dirResult, zipLog>>
  /\ UNCHANGED <<procRest, callVars, prepVars, schedVars>>

\* fs.emptyDir rejects: emptyTheDirectory throws, the handler's catch is
\* entered
EmptyFail ==
  /\ stage = "emptyTheDirectory"
  /\ stage' = "caught"
  /\ UNCHANGED <<flags, trace, listable, dirResult, zipPc, zipLog>>
  /\ UNCHANGED <<procVars, callVars, prepVars, schedVars>>

\* the steps of processFiles inside a cycle; the directory was found not
\* empty, so the early return on an empty listing cannot happen here
ProcessFilesStep ==
  \/ ReaddirFail
  \/ ReaddirFiles
  \/ \E i \in FileIds : StartFile(i)
  \/ \E i \in FileIds : RowCoercionError(i)
  \/ \E i \in FileIds : RowValidationError(i)
  \/ \E i \in FileIds : RowInsertCall(i)
  \/ \E i \in FileIds : \E r \in 1..Len(Rows(i)) : InsertOk(i, r)
  \/ \E i \in FileIds : \E r \in 1..Len(Rows(i)) : InsertFail(i, r)
  \/ \E i \in FileIds : ParserEnd(i)
  \/ \E i \in FileIds : ParserError(i)
  \/ \E i \in FileIds : IteratorThrow(i)
  \/ \E i \in FileIds : ReadStreamError(i)
  \/ \E t \in 1..Len(errorQueue) : WorkerStart(t)
  \/ \E t \in 1..Len(errorQueue) : MoveOk(t)
  \/ \E t \in 1..Len(errorQueue) : MoveFail(t)
  \/ AwaitDrain
  \/ SkipDrain

NextCycle ==
  \/ CycleFire
  \/ CheckResolves
  \/ CheckRejects
  \/ ProcessFilesStep
  \/ ProcessFilesReturns
  \/ ZipEnsureOk
  \/ ZipEnsureFail
  \/ ZipReaddirFail
  \/ ZipReaddirEmpty
  \/ ZipReaddirFiles
  \/ ZipArchiveClose
  \/ ZipArchiveError
  \/ ZipOutputError
  \/ ZipMoveOk
  \/ ZipMoveFail
  \/ ZipReturns
  \/ EmptyOk
  \/ EmptyFail

SpecCycle == InitCycle /\ [][NextCycle]_vars

\* ========================================================= prepareDirectory
\* Promise.all over ensureDirectoryExists of the five directories

InitPrepare ==
  /\ ProcIdle
  /\ call = [op |-> "none"]
  /\ ret = [status |-> "none"]
  /\ CycleIdle
  /\ SchedIdle
  /\ dirExists \in SUBSET ConfiguredDirectories
  /\ ensurePc = [d \in ConfiguredDirectories |-> "pathExists"]
  /\ prepared = "pending"
  /\ mkdirCalls = {}
  /\ prepLog = {}

PrepareStep == UNCHANGED <<procVars, callVars, cycleVars, schedVars>>

\* variant: fs.ensureDir is called whether the directory exists or not
PathExistsTrue_EnsureAnyway(d) ==
  /\ ensurePc[d] = "pathExists"
  /\ d \in dirExists
  /\ mkdirCalls' = mkdirCalls \cup {d}
  /\ ensurePc' = [ensurePc EXCEPT ![d] = "ensureDir"]
  /\ UNCHANGED <<dirExists, prepared, prepLog>>
  /\ PrepareStep

\* pathExists gives true: "Verify Directory ... CHECKED!"
PathExistsTrue(d) ==
  /\ ensurePc[d] = "pathExists"
  /\ d \in dirExists
  /\ prepLog' = prepLog \cup {[msg |-> "Verify Directory CHECKED", dir |-> d]}
  /\ ensurePc' = [ensurePc EXCEPT ![d] = "resolved"]
  /\ UNCHANGED <<dirExists, prepared, mkdirCalls>>
  /\ PrepareStep

\* pathExists gives false: fs.ensureDir is called
PathExistsFalse(d) ==
  /\ ensurePc[d] = "pathExists"
  /\ d \notin dirExists
  /\ mkdirCalls' = mkdirCalls \cup {d}
  /\ ensurePc' = [ensurePc EXCEPT ![d] = "ensureDir"]
  /\ UNCHANGED <<dirExists, prepared, prepLog>>
  /\ PrepareStep

\* fs.ensureDir resolves: "Directory created"
EnsureDirOk(d) ==
  /\ ensurePc[d] = "ensureDir"
  /\ dirExists' = dirExists \cup {d}
  /\ prepLog' = prepLog \cup {[msg |-> "Directory created", dir |-> d]}
  /\ ensurePc' = [ensurePc EXCEPT ![d] = "resolved"]
  /\ UNCHANGED <<prepared, mkdirCalls>>
  /\ PrepareStep

\* fs.ensureDir rejects: the error is logged and thrown again; the first
\* rejection rejects Promise.all, whose catch logs it and throws it again
EnsureDirFail(d) ==
  /\ ensurePc[d] = "ensureDir"
  /\ ensurePc' = [ensurePc EXCEPT ![d] = "rejected"]
  /\ IF prepared = "pending"
     THEN /\ prepared' = "rejected"
          /\ prepLog' = prepLog \cup
               {[msg |-> "Error ensuring directory exists", dir |-> d],
                [msg |-> "Error preparing the environment", dir |-> d]}
     ELSE /\ prepared' = prepared
          /\ prepLog' = prepLog \cup
               {[msg |-> "Error ensuring directory exists", dir |-> d]}
  /\ UNCHANGED <<dirExists, mkdirCalls>>
  /\ PrepareStep

\* the five promises are resolved: Promise.all resolves
PrepareResolves ==
  /\ prepared = "pending"
  /\ \A d \in ConfiguredDirectories : ensurePc[d] = "resolved"
  /\ prepared' = "resolved"
  /\ UNCHANGED <<dirExists, ensurePc, mkdirCalls, prepLog>>
  /\ PrepareStep

NextPrepare ==
  \/ \E d \in ConfiguredDirectories : PathExistsTrue(d)
  \/ \E d \in ConfiguredDirectories : PathExistsFalse(d)
  \/ \E d \in ConfiguredDirectories : EnsureDirOk(d)
  \/ \E d \in ConfiguredDirectories : EnsureDirFail(d)
  \/ PrepareResolves

SpecPrepare == InitPrepare /\ [][NextPrepare]_vars

\* ======================================== the job and its invocations
\* setupScheduler: schedule.scheduleJob(rule, handleTaskExecution). The
\* library invokes the handler at every recurrence of the rule and counts
\* the invocations whose promise is pending; gracefulShutdown cancels the
\* job and resolves when that count is zero. processFiles is reduced to
\* what matters between invocations: list, read each file, insert its rows.

\* the files of the pool that a run inserts wholly and leaves in place
CleanFiles ==
  {i \in FileIds :
     /\ matchedMappedFields(i).found
     /\ Ending(i) = "end"
     /\ Rows(i) # <<>>
     /\ \A r \in 1..Len(Rows(i)) :
          /\ ~RowObject(i, r).threw
          /\ validateData(RowObject(i, r).obj,
                          matchedMappedFields(i).fields).isNull}

\* the handler has just been invoked
Invoked ==
  [st |-> "checking", listed |-> FALSE, todo |-> {}, cur |-> 0, row |-> 0,
   zip |-> "none"]

InvocationIds == 1..Len(invocations)

\* the invocations whose promise is pending (job.running)
Running ==
  {k \in InvocationIds : invocations[k].st \notin {"completed", "skipped"}}

\* the invocations that are in the stages of a cycle
InCycle ==
  {k \in InvocationIds :
     invocations[k].st \in {"checking", "processFiles",
                            "zipAndMoveDirectory", "emptyTheDirectory"}}

ProcessRuns == exitCode = "none"

InitSchedule ==
  /\ pc = "idle"
  /\ outcome = "pending"
  /\ BATCH_SIZE = 1
  /\ dirEntries \in {S \in SUBSET CleanFiles : Cardinality(S) <= MaxCycleFiles}
  /\ readdirOk = TRUE
  /\ files = <<>>
  /\ fstate = [i \in FileIds |->
                 [st |-> "pending", row |-> 0, destroyed |-> FALSE]]
  /\ inflight = [i \in FileIds |-> {}]
  /\ rowOutcome = [i \in FileIds |-> <<>>]
  /\ inserted = [i \in FileIds |-> <<>>]
  /\ errorQueue = <<>>
  /\ fsFiles = {filePath(i) : i \in dirEntries}
  /\ logged = {}
  /\ call = [op |-> "none"]
  /\ ret = [status |-> "none"]
  /\ stage = "off"
  /\ flags \in [{"runProcessFiles", "runZipAndMove", "runEmptyTheDirectory"}
                  -> BOOLEAN]
  /\ trace = <<>>
  /\ listable \in BOOLEAN
  /\ dirResult = "none"
  /\ zipPc = "none"
  /\ zipLog = {}
  /\ PrepIdle
  /\ SchedIdle

\* what no step of the scheduler changes
schedRest == <<pc, outcome, BATCH_SIZE, dirEntries, readdirOk, files, fstate,
               inflight, rowOutcome, errorQueue, callVars, cycleVars,
               prepVars>>

\* the rule recurs: the library invokes the handler, whatever the earlier
\* invocations are doing
JobFires ==
  /\ ProcessRuns
  /\ ~jobCancelled
  /\ Len(invocations) < MaxFirings
  /\ invocations' = Append(invocations, Invoked)
  /\ UNCHANGED <<inserted, fsFiles, logged, jobCancelled, shutdownWaiters,
                 exitCode, schedRest>>

\* the catch of the handler: the error is logged and gracefulShutdown is
\* called and awaited; the call cancels the job
HandlerCatches(k) ==
  /\ invocations' = [invocations EXCEPT ![k].st = "shutdown"]
  /\ logged' = logged \cup {"Error during scheduled task execution"}
  /\ jobCancelled' = TRUE
  /\ shutdownWaiters' = shutdownWaiters \cup {k}

\* await isDirectoryNotEmpty(sourceZipDirectory)
HandlerChecks(k) ==
  /\ ProcessRuns
  /\ k \in InvocationIds
  /\ invocations[k].st = "checking"
  /\ IF ~listable
     THEN HandlerCatches(k)
     ELSE /\ invocations' =
               [invocations EXCEPT
                  ![k].st = IF SourceEntries # {} THEN Target("checking")
                            ELSE "skipped"]
          /\ UNCHANGED <<logged, jobCancelled, shutdownWaiters>>
  /\ UNCHANGED <<inserted, fsFiles, exitCode, schedRest>>

\* processFiles: readdir
HandlerListsFiles(k) ==
  /\ ProcessRuns
  /\ k \in InvocationIds
  /\ invocations[k].st = "processFiles"
  /\ ~invocations[k].listed
  /\ invocations' =
       [invocations EXCEPT
          ![k].listed = TRUE,
          ![k].todo = {i \in dirEntries : filePath(i) \in fsFiles}]
  /\ UNCHANGED <<inserted, fsFiles, logged, jobCancelled, shutdownWaiters,
                 exitCode, schedRest>>

\* processFiles: createReadStream of a listed file that is there
HandlerOpensFile(k, i) ==
  /\ ProcessRuns
  /\ k \in InvocationIds
  /\ invocations[k].st = "processFiles"
  /\ invocations[k].cur = 0
  /\ i \in invocations[k].todo
  /\ filePath(i) \in fsFiles
  /\ invocations' = [invocations EXCEPT ![k].todo = @ \ {i},
                                        ![k].cur = i,
                                        ![k].row = 0]
  /\ UNCHANGED <<inserted, fsFiles, logged, jobCancelled, shutdownWaiters,
                 exitCode, schedRest>>

\* processFiles: createReadStream of a listed file that is gone; the
\* stream's 'error' has no listener and ends the process
HandlerOpensMissing(k, i) ==
  /\ ProcessRuns
  /\ k \in InvocationIds
  /\ invocations[k].st = "processFiles"
  /\ invocations[k].cur = 0
  /\ i \in invocations[k].todo
  /\ filePath(i) \notin fsFiles
  /\ exitCode' = "uncaught"
  /\ UNCHANGED <<invocations, inserted, fsFiles, logged, jobCancelled,
                 shutdownWaiters, schedRest>>

\* processFiles: the next row of the open file is inserted
HandlerInsertsRow(k) ==
  /\ ProcessRuns
  /\ k \in InvocationIds
  /\ invocations[k].cur # 0
  /\ invocations[k].row < Len(Rows(invocations[k].cur))
  /\ inserted' =
       [inserted EXCEPT
          ![invocations[k].cur] =
             Append(@, RowObject(invocations[k].cur,
                                 invocations[k].row + 1).obj)]
  /\ invocations' = [invocations EXCEPT ![k].row = @ + 1]
  /\ UNCHANGED <<fsFiles, logged, jobCancelled, shutdownWaiters, exitCode,
                 schedRest>>

\* processFiles: the open file has no row left
HandlerEndsFile(k) ==
  /\ ProcessRuns
  /\ k \in InvocationIds
  /\ invocations[k].cur # 0
  /\ invocations[k].row = Len(Rows(invocations[k].cur))
  /\ invocations' = [invocations EXCEPT ![k].cur = 0]
  /\ UNCHANGED <<inserted, fsFiles, logged, jobCancelled, shutdownWaiters,
                 exitCode, schedRest>>

\* await processFiles(config) resumes
HandlerProcessReturns(k) ==
  /\ ProcessRuns
  /\ k \in InvocationIds
  /\ invocations[k].st = "processFiles"
  /\ invocations[k].listed
  /\ invocations[k].todo = {}
  /\ invocations[k].cur = 0
  /\ invocations' = [invocations EXCEPT ![k].st = Target("processFiles")]
  /\ UNCHANGED <<inserted, fsFiles, logged, jobCancelled, shutdownWaiters,
                 exitCode, schedRest>>

\* await zipAndMoveDirectory(...): the archive is put at the destination,
\* or a failure is logged and swallowed; the handler goes on either way
HandlerZips(k) ==
  /\ ProcessRuns
  /\ k \in InvocationIds
  /\ invocations[k].st = "zipAndMoveDirectory"
  /\ \E ok \in BOOLEAN :
       IF ok /\ SourceEntries # {} /\ destinationFilePath \notin fsFiles
       THEN /\ fsFiles' = fsFiles \cup {destinationFilePath}
            /\ invocations' =
                 [invocations EXCEPT
                    ![k].zip = "done",
                    ![k].st = Target("zipAndMoveDirectory")]
       ELSE /\ fsFiles' = fsFiles
            /\ invocations' =
                 [invocations EXCEPT
                    ![k].zip = "failed",
                    ![k].st = Target("zipAndMoveDirectory")]
  /\ UNCHANGED <<inserted, logged, jobCancelled, shutdownWaiters, exitCode,
                 schedRest>>

\* await emptyTheDirectory(sourceZipDirectory) resolves
HandlerEmpties(k) ==
  /\ ProcessRuns
  /\ k \in InvocationIds
  /\ invocations[k].st = "emptyTheDirectory"
  /\ fsFiles' = fsFiles \ SourceEntries
  /\ invocations' = [invocations EXCEPT ![k].st = "completed"]
  /\ UNCHANGED <<inserted, logged, jobCancelled, shutdownWaiters, exitCode,
                 schedRest>>

\* emptyTheDirectory throws
HandlerEmptyFails(k) ==
  /\ ProcessRuns
  /\ k \in InvocationIds
  /\ invocations[k].st = "emptyTheDirectory"
  /\ HandlerCatches(k)
  /\ UNCHANGED <<inserted, fsFiles, exitCode, schedRest>>

\* process.on('SIGINT'): gracefulShutdown is called, exit follows its promise
Sigint ==
  /\ ProcessRuns
  /\ 0 \notin shutdownWaiters
  /\ jobCancelled' = TRUE
  /\ shutdownWaiters' = shutdownWaiters \cup {0}
  /\ UNCHANGED <<invocations, inserted, fsFiles, logged, exitCode, schedRest>>

\* the promise of gracefulShutdown resolves, no invocation being pending;
\* the code after it exits: 0 in the SIGINT handler, 1 in the catch
ShutdownResolves(w) ==
  /\ ProcessRuns
  /\ w \in shutdownWaiters
  /\ Running = {}
  /\ exitCode' = IF w = 0 THEN "0" ELSE "1"
  /\ UNCHANGED <<invocations, inserted, fsFiles, logged, jobCancelled,
                 shutdownWaiters, schedRest>>

NextSchedule ==
  \/ JobFires
  \/ \E k \in 1..MaxFirings : HandlerChecks(k)
  \/ \E k \in 1..MaxFirings : HandlerListsFiles(k)
  \/ \E k \in 1..MaxFirings : \E i \in FileIds : HandlerOpensFile(k, i)
  \/ \E k \in 1..MaxFirings : \E i \in FileIds : HandlerOpensMissing(k, i)
  \/ \E k \in 1..MaxFirings : HandlerInsertsRow(k)
  \/ \E k \in 1..MaxFirings : HandlerEndsFile(k)
  \/ \E k \in 1..MaxFirings : HandlerProcessReturns(k)
  \/ \E k \in 1..MaxFirings : HandlerZips(k)
  \/ \E k \in 1..MaxFirings : HandlerEmpties(k)
  \/ \E k \in 1..MaxFirings : HandlerEmptyFails(k)
  \/ Sigint
  \/ \E w \in 0..MaxFirings : ShutdownResolves(w)

SpecSchedule == InitSchedule /\ [][NextSchedule]_vars

\* the event loop runs what is ready
SpecScheduleFair == InitSchedule /\ [][NextSchedule]_vars /\ WF_vars(NextSchedule)

\* ================================================================ claims
\* the tasks pushed for file i
TasksOf(i) ==
  {t \in 1..Len(errorQueue) : errorQueue[t].sourcePath = filePath(i)}

\* the tasks pushed for file i towards directory d
TasksTo(i, d) ==
  {t \in TasksOf(i) : errorQueue[t].targetPath = PathJoin(d, Name(i))}

Finished(t) == errorQueue[t].status \in {"moved", "failed"}

\* the rows of file i with the given outcome
RowsWith(i, result) ==
  {k \in 1..Len(rowOutcome[i]) : rowOutcome[i][k].result = result}

\* C1: at every instant the number of fs.move operations in flight is at
\* most the concurrency limit BATCH_SIZE, however many tasks were pushed.
C1_MovesInFlightBounded == QueueRunning(errorQueue) <= BATCH_SIZE

C1_Witness ==
  /\ QueueRunning(errorQueue) = BATCH_SIZE
  /\ QueueLength(errorQueue) > 0

\* C2: when processFiles has resolved after the fan-out ran, every task
\* pushed on the relocation queue has finished (moved, or failed and
\* logged): nothing is pending, nothing is running.
C2_ResolvedOnlyAfterDrain ==
  (pc = "done" /\ files # <<>>) =>
    /\ QueueLength(errorQueue) + QueueRunning(errorQueue) = 0
    /\ \A t \in 1..Len(errorQueue) : Finished(t)
    /\ (\E t \in 1..Len(errorQueue) : errorQueue[t].status = "failed")
         => "moveFailed" \in logged

C2_Witness ==
  /\ pc = "done"
  /\ \E t \in 1..Len(errorQueue) : errorQueue[t].status = "moved"
  /\ \E t \in 1..Len(errorQueue) : errorQueue[t].status = "failed"

\* C3: processFiles never rejects; when the directory listing fails the
\* error is logged as critical and the returned promise resolves.
C3_NeverRejects ==
  /\ outcome # "rejected"
  /\ (~readdirOk /\ pc # "start") =>
       /\ pc = "done"
       /\ outcome = "resolved"
       /\ "critical" \in logged

C3_Witness == ~readdirOk /\ pc = "done" /\ dirEntries # {}

\* scenario A: the name resolves to [date_time, duration, count]; the one
\* row has an ISO-8601 date_time, a numeric duration and a numeric count
ScenarioA(i) ==
  /\ matchedMappedFields(i) =
       [found |-> TRUE, fields |-> <<"date_time", "duration", "count">>]
  /\ Ending(i) = "end"
  /\ Len(Rows(i)) = 1
  /\ DOMAIN Rows(i)[1] = {"date_time", "duration", "count"}
  /\ Rows(i)[1]["date_time"] \in IsoTimestamps
  /\ ~parseFloat(Rows(i)[1]["duration"]).nan
  /\ ~parseInt(Rows(i)[1]["count"]).nan

\* C4: when the run has ended and the store rejected nothing of a
\* scenario-A file, exactly one record of the file is in the store, it
\* carries file_name = base name of the file, and no relocation task was
\* queued for the file.
C4_ScenarioA_Inserted ==
  \A i \in Listed :
    (ScenarioA(i) /\ pc = "done" /\ RowsWith(i, "insertFail") = {}) =>
      /\ Len(inserted[i]) = 1
      /\ inserted[i][1]["file_name"] = Name(i)
      /\ TasksOf(i) = {}

\* scenario B: no FILE_FIELD_MAP entry matches the name
ScenarioB(i) == ~matchedMappedFields(i).found

\* C5: a file without a mapping is never opened or parsed and nothing of
\* it is inserted; it is queued exactly once, towards
\* fieldConfigErrorDirectory, and at the end of the run it is there.
C5_NoMappingFileQuarantined ==
  \A i \in Listed :
    ScenarioB(i) =>
      /\ fstate[i].st \in {"pending", "skipped"}
      /\ fstate[i].row = 0
      /\ inflight[i] = {}
      /\ rowOutcome[i] = <<>>
      /\ inserted[i] = <<>>
      /\ TasksOf(i) = TasksTo(i, fieldConfigErrorDirectory)
      /\ Cardinality(TasksOf(i)) = (IF fstate[i].st = "skipped" THEN 1 ELSE 0)
      /\ pc = "done" =>
           /\ PathJoin(fieldConfigErrorDirectory, Name(i)) \in fsFiles
           /\ filePath(i) \notin fsFiles

C5_Witness ==
  /\ pc = "done"
  /\ Len(files) = 2
  /\ \E i \in Listed :
       /\ ScenarioB(i)
       /\ PathJoin(fieldConfigErrorDirectory, Name(i)) \in fsFiles

\* what can become of row r of file i when the loop takes it
ExpectedOutcomes(i, r) ==
  IF RowObject(i, r).threw THEN {"coerceFail"}
  ELSE IF ~validateData(RowObject(i, r).obj,
                        matchedMappedFields(i).fields).isNull
       THEN {"invalid"}
       ELSE {"inserted", "insertFail"}

\* C6: a rejected insert queues the file towards dbInsertionErrorDirectory
\* (one task per rejected row) and does not end the row loop: once the
\* stream of the file has ended, every later row has been coerced,
\* validated and, if valid, handed to the store.
C6_InsertFailureIsolated ==
  \A i \in Listed :
    /\ Cardinality(TasksTo(i, dbInsertionErrorDirectory))
         = Cardinality(RowsWith(i, "insertFail"))
    /\ \A k \in RowsWith(i, "insertFail") :
         /\ fstate[i].st # "aborted" \/ fstate[i].destroyed
         /\ fstate[i].st = "completed" =>
              \A r \in (rowOutcome[i][k].row + 1)..Len(Rows(i)) :
                \E j \in 1..Len(rowOutcome[i]) :
                  /\ rowOutcome[i][j].row = r
                  /\ rowOutcome[i][j].result \in ExpectedOutcomes(i, r)

C6_Witness ==
  \E i \in Listed :
    /\ fstate[i].st = "completed"
    /\ Len(rowOutcome[i]) = 2
    /\ rowOutcome[i][1] = [row |-> 1, result |-> "insertFail"]
    /\ rowOutcome[i][2] = [row |-> 2, result |-> "inserted"]
    /\ Len(inserted[i]) = 1

\* scenario C: the only row of a mapped file lacks a required field
ScenarioC(i) ==
  /\ matchedMappedFields(i).found
  /\ Ending(i) = "end"
  /\ Len(Rows(i)) = 1
  /\ "date_time" \in
       {matchedMappedFields(i).fields[n] :
          n \in 1..Len(matchedMappedFields(i).fields)}
  /\ "date_time" \notin DOMAIN Rows(i)[1]

\* C7: in scenario C validation fails: nothing of the file is inserted, the
\* file is queued towards miscErrorDirectory and at the end of the run it
\* is there.
C7_MissingFieldQuarantined ==
  \A i \in Listed :
    ScenarioC(i) =>
      /\ inserted[i] = <<>>
      /\ inflight[i] = {}
      /\ TasksOf(i) = TasksTo(i, miscErrorDirectory)
      /\ fstate[i].st \in TerminalStates =>
           /\ fstate[i].st = "completed"
           /\ rowOutcome[i] = << [row |-> 1, result |-> "invalid"] >>
           /\ Cardinality(TasksOf(i)) = 1
      /\ pc = "done" =>
           /\ PathJoin(miscErrorDirectory, Name(i)) \in fsFiles
           /\ filePath(i) \notin fsFiles

C7_Witness ==
  /\ pc = "done"
  /\ \E i \in Listed :
       /\ ScenarioC(i)
       /\ rowOutcome[i] = << [row |-> 1, result |-> "invalid"] >>
       /\ PathJoin(miscErrorDirectory, Name(i)) \in fsFiles

\* C8: with an empty watched directory processFiles returns at once: no
\* file task starts, nothing is queued for relocation, nothing is inserted.
C8_EmptyDirectoryReturns ==
  (readdirOk /\ dirEntries = {} /\ pc # "start") =>
    /\ pc = "done"
    /\ outcome = "resolved"
    /\ "noFiles" \in logged
    /\ errorQueue = <<>>
    /\ \A i \in FileIds :
         /\ fstate[i].st = "pending"
         /\ inflight[i] = {}
         /\ inserted[i] = <<>>

C8_Witness == readdirOk /\ dirEntries = {} /\ pc = "done"

\* C9: at every instant at most BATCH_SIZE file tasks are active (started
\* and not yet terminal); a further file waits until one of them finishes.
C9_FanoutBounded == Cardinality(ActiveFiles) <= BATCH_SIZE

C9_Witness ==
  /\ Cardinality(ActiveFiles) = BATCH_SIZE
  /\ \E i \in Listed : fstate[i].st = "pending"

\* C10: the rows of a file are processed one at a time in stream order: at
\* most one insert of the file is in flight, it is the insert of the row
\* taken last, the loop waits for it, and every earlier row has its outcome.
C10_RowsSequential ==
  \A i \in FileIds :
    /\ Cardinality(inflight[i]) <= 1
    /\ inflight[i] # {} =>
         /\ fstate[i].st = "inserting"
         /\ inflight[i] = {fstate[i].row}
    /\ Len(rowOutcome[i]) = fstate[i].row - Cardinality(inflight[i])
    /\ \A k \in 1..Len(rowOutcome[i]) : rowOutcome[i][k].row = k

C10_Witness ==
  \E i \in Listed :
    /\ inflight[i] = {2}
    /\ Len(rowOutcome[i]) = 1
    /\ rowOutcome[i][1].result = "insertFail"

\* the entries of map, in declaration order, that match the file name
MatchingEntries(filename, map) ==
  {n \in 1..Len(map) :
     /\ map[n].spacing + 1 \in 1..Len(Split(filename, "_"))
     /\ Split(filename, "_")[map[n].spacing + 1] = map[n].key}

\* C11: determineFieldMapping returns the fields of the first entry, in
\* declaration order, whose key equals the part of the file name at its
\* spacing; it returns null exactly when no entry matches.
C11_FirstDeclaredMatch ==
  (call.op = "determineFieldMapping" /\ ret.status = "returned") =>
    LET matching == MatchingEntries(call.filename, call.map) IN
    /\ ret.value.found <=> matching # {}
    /\ matching # {} =>
         \E n \in matching :
           /\ \A m \in matching : n <= m
           /\ ret.value.fields = call.map[n].fields

CoerceEnded == call.op = "constructDataObject" /\ ret.status # "none"

CoerceReturned == call.op = "constructDataObject" /\ ret.status = "returned"

\* the field is asked for
Asked(field) == \E n \in 1..Len(call.fields) : call.fields[n] = field

NumericFields == {"duration", "count"}

\* text that is a number of the kind the field holds
WellFormed(field, v) ==
  IF field = "duration" THEN v \in {"12.5", "3", "0"} ELSE v \in {"3", "0"}

\* text that does not start with a number
NoNumber(v) == v \in {"abc", ""}

\* C13 as stated: coerce raises only because of date_time, and a duration
\* or count value that is absent or malformed is 0 in the Record.
C13_AbsentOrMalformedIsZero ==
  /\ (CoerceEnded /\ ret.status = "threw") =>
        Asked("date_time") /\ "date_time" \in DOMAIN call.contentColumn
  /\ CoerceReturned =>
       \A k \in NumericFields :
         (/\ Asked(k)
          /\ \/ k \notin DOMAIN call.contentColumn
             \/ ~WellFormed(k, call.contentColumn[k]))
         => /\ k \in DOMAIN ret.value
            /\ ret.value[k] = Zero

\* C13, amended: coerce raises only when date_time is asked for and is in
\* the row; a duration or count that is in the row is stored as a number,
\* never NaN, and as 0 when its text does not start with a number; a
\* duration or count that is not in the row is not in the Record.
C13_UnparsableIsZero ==
  /\ (CoerceEnded /\ ret.status = "threw") =>
        Asked("date_time") /\ "date_time" \in DOMAIN call.contentColumn
  /\ CoerceReturned =>
       \A k \in NumericFields :
         /\ (Asked(k) /\ k \in DOMAIN call.contentColumn) =>
              /\ k \in DOMAIN ret.value
              /\ ~ret.value[k].nan
              /\ NoNumber(call.contentColumn[k]) => ret.value[k] = Zero
         /\ k \notin DOMAIN call.contentColumn => k \notin DOMAIN ret.value

C13_Witness ==
  /\ CoerceReturned
  /\ Asked("duration")
  /\ Asked("count")
  /\ "duration" \in DOMAIN call.contentColumn
  /\ "count" \in DOMAIN call.contentColumn
  /\ call.contentColumn["duration"] = "abc"
  /\ call.contentColumn["count"] = ""
  /\ ret.value["duration"] = Zero
  /\ ret.value["count"] = Zero

ValidIso8601(v) == v = "2024-01-01T00:00:00Z"

\* C14: with date_time in the row, coerce stores the normalized timestamp
\* when the value is a valid ISO-8601 date/time, and raises CoercionError
\* when it is not.
C14_DateTimeNormalizedOrRaises ==
  (CoerceEnded /\ Asked("date_time")
     /\ "date_time" \in DOMAIN call.contentColumn) =>
    IF ValidIso8601(call.contentColumn["date_time"])
    THEN /\ ret.status = "returned"
         /\ "date_time" \in DOMAIN ret.value
         /\ ret.value["date_time"] = "2024-01-01T00:00:00.000Z"
    ELSE ret.status = "threw"

\* the options of the config that are neither null nor undefined
OptionsNonNull ==
  {k \in {"dailyAt", "everyXHours", "everyXMinutes"} :
     call.config[k].t \notin {"null", "undefined"}}

\* C15: validateSchedulingConfig returns when exactly one of dailyAt,
\* everyXHours, everyXMinutes is non-null and throws otherwise, whatever
\* the other properties of the config are.
C15_ExactlyOneOption ==
  (call.op = "validateSchedulingConfig" /\ ret.status # "none") =>
    /\ ret.status = "returned" <=> Cardinality(OptionsNonNull) = 1
    /\ ret.status = "threw" <=> Cardinality(OptionsNonNull) # 1

C15_Witness ==
  /\ call.op = "validateSchedulingConfig"
  /\ ret.status = "returned"
  /\ call.config.everyXMinutes = [t |-> "number", v |-> "0"]
  /\ call.config.BATCH_SIZE.t = "number"

\* the events of a cycle that runs every stage whose flag is set, from
\* the n-th stage on
RECURSIVE EventsFrom(_)
EventsFrom(n) ==
  IF n > 3 THEN <<>>
  ELSE (IF flags[FlagOf(StageOrder[n])]
        THEN << [stage |-> StageOrder[n], ev |-> "start"],
                [stage |-> StageOrder[n], ev |-> "end"] >>
        ELSE <<>>) \o EventsFrom(n + 1)

IsPrefix(a, b) == Len(a) <= Len(b) /\ \A n \in 1..Len(a) : a[n] = b[n]

Started(s) == \E n \in 1..Len(trace) : trace[n] = [stage |-> s, ev |-> "start"]

\* processFiles has resolved and has nothing left to do
ProcessFilesOver ==
  /\ pc = "done"
  /\ outcome = "resolved"
  /\ ActiveFiles = {}
  /\ \A i \in FileIds : inflight[i] = {}
  /\ \A t \in 1..Len(errorQueue) : Finished(t)

\* C16: in a scheduled cycle the stages run in the order processFiles,
\* zip-and-move, empty-the-directory, each only if its flag is set and each
\* starting only after the previous one has completed; when the source
\* directory is empty at the start of the cycle no stage runs.
C16_StagesInOrder ==
  stage # "off" =>
    /\ IsPrefix(trace, EventsFrom(1))
    /\ stage = "completed" => trace = EventsFrom(1)
    /\ dirResult # "true" => trace = <<>>
    /\ dirResult = "false" => stage = "skipped"
    /\ ~Started("processFiles") => pc = "idle"
    /\ ~Started("zipAndMoveDirectory") => zipPc = "none"
    /\ (Started("zipAndMoveDirectory") /\ flags["runProcessFiles"])
         => ProcessFilesOver
    /\ Started("emptyTheDirectory") =>
         /\ flags["runProcessFiles"] => ProcessFilesOver
         /\ flags["runZipAndMove"] => zipPc = "returned"

C16_Witness ==
  /\ stage = "completed"
  /\ Len(trace) = 6
  /\ \E t \in 1..Len(errorQueue) : errorQueue[t].status = "moved"
  /\ SourceEntries = {}

ZipFailures ==
  {"ensureDirectoryExists rejected", "readdir rejected", "archive error",
   "output error", "moveZipFile rejected"}

\* C17: when zipping or moving fails, zipAndMoveDirectory logs the error and
\* returns, it does not throw; when zipTheDirectory yields null no zip file
\* is moved.
C17_ZipFailureLoggedAndReturned ==
  /\ zipPc # "threw"
  /\ zipLog \cap ZipFailures # {} =>
       /\ zipPc = "returned"
       /\ "log: Failed to zip folder or move zip file" \in zipLog
  /\ "zipPath is null" \in zipLog =>
       /\ "moveZipFile called" \notin zipLog
       /\ destinationFilePath \notin fsFiles

PrepareErrors ==
  {e \in prepLog : e.msg = "Error preparing the environment"}

\* what holds in every state of prepareDirectory
C19_PrepareState ==
  prepared # "none" =>
    /\ Cardinality(ConfiguredDirectories) = 5
    /\ prepared = "resolved" =>
         /\ ConfiguredDirectories \subseteq dirExists
         /\ PrepareErrors = {}
    /\ (\E d \in ConfiguredDirectories : ensurePc[d] = "rejected")
         => prepared = "rejected"
    /\ prepared = "rejected" =>
         \E d \in ConfiguredDirectories :
           /\ ensurePc[d] = "rejected"
           /\ [msg |-> "Error ensuring directory exists", dir |-> d]
                \in prepLog
           /\ PrepareErrors =
                {[msg |-> "Error preparing the environment", dir |-> d]}

\* fs.ensureDir is called only on a directory that does not exist
C19_CreateOnlyAbsent ==
  \A d \in ConfiguredDirectories :
    (d \in mkdirCalls' /\ d \notin mkdirCalls) => d \notin dirExists

\* C19: prepareDirectory ensures that each of the five configured
\* directories exists, creating a directory only when it is absent; when
\* ensuring one of them fails it logs that error and rejects with it.
C19_PrepareDirectory ==
  [](C19_PrepareState) /\ [][C19_CreateOnlyAbsent]_vars

C19_Witness ==
  /\ prepared = "rejected"
  /\ \E d \in ConfiguredDirectories : ensurePc[d] = "rejected"
  /\ \E d \in ConfiguredDirectories :
       [msg |-> "Directory created", dir |-> d] \in prepLog
  /\ \E d \in ConfiguredDirectories :
       [msg |-> "Verify Directory CHECKED", dir |-> d] \in prepLog

\* what holds in every state of a run with a parse-level error
C20_AbortState ==
  \A i \in Listed :
    /\ fstate[i].destroyed =>
         /\ Ending(i) = "parseError"
         /\ TasksTo(i, miscErrorDirectory) # {}
    /\ fstate[i].st = "aborted" =>
         /\ fstate[i].destroyed
         /\ inflight[i] = {}
         /\ Len(rowOutcome[i]) = fstate[i].row
         /\ \A k \in 1..fstate[i].row :
              rowOutcome[i][k].result \in ExpectedOutcomes(i, k)
    /\ (pc = "done" /\ ~fstate[i].destroyed) =>
         /\ fstate[i].st \in {"skipped", "completed"}
         /\ fstate[i].st = "completed" <=> matchedMappedFields(i).found
         /\ fstate[i].st = "completed" =>
              Len(rowOutcome[i]) = Len(Rows(i))

\* once the parser of a file is destroyed the loop takes no further row
C20_NoFurtherRow ==
  \A i \in FileIds :
    fstate[i].destroyed => fstate'[i].row = fstate[i].row

\* C20: a parse-level error in a file aborts that file only: the file is
\* queued towards the misc error directory, no further row of it is taken
\* after the error, the rows taken before the error have been processed, and
\* every other file still runs to its end.
C20_ParseErrorAbortsOnlyThatFile ==
  [](C20_AbortState) /\ [][C20_NoFurtherRow]_vars

C20_Witness ==
  /\ pc = "done"
  /\ \E i, j \in Listed :
       /\ fstate[i].st = "aborted"
       /\ fstate[i].row = 1
       /\ rowOutcome[i][1].result = "inserted"
       /\ \A t \in TasksOf(i) : Finished(t)
       /\ fstate[j].st = "completed"
       /\ Len(rowOutcome[j]) = 2

\* the number of tasks the code pushes for file i towards the misc error
\* directory: one per row that failed coercion or validation, one for a
\* parse-level error
MiscEnqueues(i) ==
  Cardinality(RowsWith(i, "coerceFail")) + Cardinality(RowsWith(i, "invalid"))
    + (IF fstate[i].destroyed THEN 1 ELSE 0)

\* the rows whose coercion throws are recorded as coercion failures, each
\* with one task towards the misc error directory and no record in the
\* store, and the rows after them are processed
C21_FailedRows ==
  \A i \in Listed :
    /\ \A r \in 1..fstate[i].row :
         (RowObject(i, r).threw /\ r \notin inflight[i]) =>
           /\ r <= Len(rowOutcome[i])
           /\ rowOutcome[i][r] = [row |-> r, result |-> "coerceFail"]
    /\ Cardinality(TasksTo(i, miscErrorDirectory)) = MiscEnqueues(i)
    /\ Len(inserted[i]) = Cardinality(RowsWith(i, "inserted"))
    /\ \A k \in RowsWith(i, "coerceFail") :
         /\ k \notin inflight[i]
         /\ fstate[i].st # "aborted" \/ fstate[i].destroyed
         /\ fstate[i].st = "completed" =>
              \A r \in (k + 1)..Len(Rows(i)) :
                /\ r <= Len(rowOutcome[i])
                /\ rowOutcome[i][r].row = r
                /\ rowOutcome[i][r].result \in ExpectedOutcomes(i, r)

\* the step that records a coercion failure pushes one task towards the misc
\* error directory, hands nothing to the store and leaves the loop reading
C21_FailureStep ==
  \A i \in FileIds :
    (/\ Len(rowOutcome'[i]) > Len(rowOutcome[i])
     /\ rowOutcome'[i][Len(rowOutcome'[i])].result = "coerceFail") =>
      /\ Len(errorQueue') = Len(errorQueue) + 1
      /\ errorQueue'[Len(errorQueue')].targetPath =
           PathJoin(miscErrorDirectory, Name(i))
      /\ inserted' = inserted
      /\ inflight' = inflight
      /\ fstate'[i].st = "reading"
      /\ fstate'[i].row = fstate[i].row + 1

\* C21: a row whose coercion fails queues the file towards the misc error
\* directory, is not inserted, and does not end the row loop: every later
\* row of the file is still processed.
C21_CoercionFailureIsolated ==
  [](C21_FailedRows) /\ [][C21_FailureStep]_vars

C21_Witness ==
  \E i \in Listed :
    /\ fstate[i].st = "completed"
    /\ rowOutcome[i] = << [row |-> 1, result |-> "coerceFail"],
                          [row |-> 2, result |-> "invalid"] >>
    /\ Cardinality(TasksTo(i, miscErrorDirectory)) = 2
    /\ inserted[i] = <<>>

\* the tasks pushed with the same source file as task t
SameSource(t) ==
  {u \in 1..Len(errorQueue) :
     errorQueue[u].sourcePath = errorQueue[t].sourcePath}

\* a failed task was run once, its failure was logged and nothing else came
\* of it; at the end of the run nothing is left to do
C22_FailedMoves ==
  /\ outcome # "rejected"
  /\ \A t \in 1..Len(errorQueue) :
       /\ errorQueue[t].runs <= 1
       /\ errorQueue[t].status = "failed" =>
            /\ errorQueue[t].runs = 1
            /\ "moveFailed" \in logged
            /\ "critical" \notin logged
            /\ errorQueue[t].sourcePath \notin fsFiles
       /\ Cardinality({u \in SameSource(t) :
                         errorQueue[u].status = "moved"}) <= 1
  /\ pc = "done" =>
       /\ \A i \in Listed : fstate[i].st \in TerminalStates
       /\ \A t \in 1..Len(errorQueue) :
            /\ Finished(t)
            /\ \E u \in SameSource(t) : errorQueue[u].status = "moved"

\* the step in which a move fails touches that task only: the file
\* pipelines and the other tasks stay as they are and processFiles does not
\* fail
C22_FailedMoveStep ==
  \A t \in 1..Len(errorQueue) :
    (errorQueue[t].status = "running" /\ errorQueue'[t].status = "failed") =>
      /\ "moveFailed" \in logged'
      /\ fstate' = fstate
      /\ inflight' = inflight
      /\ "critical" \notin logged'
      /\ outcome' # "rejected"
      /\ Len(errorQueue') = Len(errorQueue)
      /\ \A u \in 1..Len(errorQueue) :
           u # t => errorQueue'[u] = errorQueue[u]

\* C22: a file can be queued several times in a run; a move that fails,
\* also because an earlier task has moved the file away, is logged and
\* swallowed: the task is not run again, the other tasks and the file
\* pipelines go on, and processFiles does not fail.
C22_FailedMoveSwallowed ==
  [](C22_FailedMoves) /\ [][C22_FailedMoveStep]_vars

C22_Witness ==
  /\ pc = "done"
  /\ outcome = "resolved"
  /\ \E t, u, v \in 1..Len(errorQueue) :
       /\ t < u
       /\ u < v
       /\ u \in SameSource(t)
       /\ errorQueue[t].status = "moved"
       /\ errorQueue[u].status = "failed"
       /\ v \notin SameSource(t)
       /\ errorQueue[v].status = "moved"

\* the terminal state of the pipeline of file i, in the words of the
\* per-file state machine
TerminalName(i) ==
  IF fstate[i].st = "skipped" THEN "Skipped-NoMapping"
  ELSE IF fstate[i].st \in {"completed", "aborted"}
       THEN (IF TasksOf(i) = {} THEN "Completed" ELSE "Completed-With-Errors")
       ELSE "none"

\* the fan-out is over, or the run has ended in any other way
FanoutOver == pc \in {"draining", "done", "crashed"}

\* C23: every file listed by a run reaches a terminal state (Skipped-NoMapping,
\* Completed, Completed-With-Errors) and no file is left non-terminal when
\* the fan-out is over, also when a file cannot be opened or read.
C23_EveryFileTerminal ==
  FanoutOver =>
    \A i \in Listed :
      /\ TerminalName(i) # "none"
      /\ TerminalName(i) = "Skipped-NoMapping" <=> ~matchedMappedFields(i).found

\* once a task is finished it stays as it is
C27_TasksRunOnce ==
  \A t \in 1..Len(errorQueue) :
    /\ errorQueue'[t].runs >= errorQueue[t].runs
    /\ Finished(t) => errorQueue'[t] = errorQueue[t]

\* a row is handed to the store when the loop takes it, and only then
C27_InsertOnce ==
  \A i \in FileIds :
    /\ fstate'[i].row >= fstate[i].row
    /\ \A r \in inflight'[i] \ inflight[i] :
         /\ fstate[i].row = r - 1
         /\ fstate'[i].row = r
         /\ Len(rowOutcome[i]) = r - 1

C27_RunCounts ==
  \A t \in 1..Len(errorQueue) :
    /\ errorQueue[t].runs <= 1
    /\ errorQueue[t].runs = 1 <=> errorQueue[t].status # "pending"

\* C27: nothing is retried within a run: every queued relocation task is run
\* by a worker once and is then done with, moved or failed, and the insert
\* of a row is attempted at most once.
C27_NothingRetried ==
  [](C27_RunCounts) /\ [][C27_TasksRunOnce /\ C27_InsertOnce]_vars

C27_Witness ==
  /\ pc = "done"
  /\ \E t \in 1..Len(errorQueue) :
       errorQueue[t].status = "failed" /\ errorQueue[t].runs = 1
  /\ \E i \in Listed :
       /\ RowsWith(i, "insertFail") # {}
       /\ Len(rowOutcome[i]) = Len(Rows(i))

\* the step pushes a task into the relocation queue
Pushes == Len(errorQueue') > Len(errorQueue)

\* the step starts or finishes the move of a queued task
MovesATask ==
  \E t \in 1..Len(errorQueue) : errorQueue'[t].status # errorQueue[t].status

\* a file task has its fan-out slot from its start to its end, in
\* particular while it waits for an insert
C24_SlotHeld ==
  /\ Cardinality(ActiveFiles) <= BATCH_SIZE
  /\ \A i \in FileIds :
       /\ fstate[i].st = "inserting" => i \in ActiveFiles /\ inflight[i] # {}
       /\ (fstate[i].st = "reading" /\ fstate[i].row > 0) => i \in ActiveFiles

\* a file task starts only into a free fan-out slot, whatever the relocation
\* queue does; a push never depends on the relocation pool and leaves the
\* tasks already queued alone; a move never touches a file task
C24_PoolSteps ==
  /\ \A i \in FileIds :
       (fstate[i].st = "pending" /\ fstate'[i].st # "pending")
         => Cardinality(ActiveFiles) < BATCH_SIZE
  /\ Pushes =>
       /\ Len(errorQueue') = Len(errorQueue) + 1
       /\ errorQueue'[Len(errorQueue')].status = "pending"
       /\ \A t \in 1..Len(errorQueue) : errorQueue'[t] = errorQueue[t]
       /\ \E i \in Listed : fstate'[i] # fstate[i] /\ fstate'[i].st # "pending"
  /\ MovesATask =>
       /\ fstate' = fstate
       /\ inflight' = inflight
       /\ rowOutcome' = rowOutcome
       /\ Len(errorQueue') = Len(errorQueue)

\* C24: the fan-out pool and the relocation pool are independent: moves start
\* and finish while all BATCH_SIZE fan-out slots are occupied, a file task
\* pushes and goes on without waiting for a relocation slot, and a file task
\* keeps its fan-out slot during its whole row loop, also while it waits for
\* an insert.
C24_PoolsIndependent ==
  [](C24_SlotHeld) /\ [][C24_PoolSteps]_vars

C24_Witness ==
  /\ pc = "fanout"
  /\ Cardinality(ActiveFiles) = BATCH_SIZE
  /\ QueueRunning(errorQueue) = BATCH_SIZE
  /\ QueueLength(errorQueue) >= 1
  /\ \E t \in 1..Len(errorQueue) :
       /\ errorQueue[t].status = "moved"
       /\ \E i \in ActiveFiles : errorQueue[t].sourcePath = filePath(i)

\* a parsed row whose values are all empty strings
EmptyRow(contentColumn) ==
  /\ DOMAIN contentColumn # {}
  /\ \A field \in DOMAIN contentColumn : contentColumn[field] = ""

\* C25: a row whose values are all empty strings fails validation: it is
\* never handed to the store, its outcome is a validation failure and the
\* file is queued towards the misc error directory.
C25_EmptyRowFailsValidation ==
  \A i \in Listed :
    /\ \A r \in inflight[i] : ~EmptyRow(Rows(i)[r])
    /\ \A k \in 1..Len(rowOutcome[i]) :
         EmptyRow(Rows(i)[rowOutcome[i][k].row]) =>
           /\ rowOutcome[i][k].result = "invalid"
           /\ TasksTo(i, miscErrorDirectory) # {}

\* the tasks of a file towards each error directory are counted by the
\* failures of the matching kind
C26_TasksByKind ==
  /\ \A t \in 1..Len(errorQueue) :
       /\ errorQueue[t].sourcePath.dir = sourceZipDirectory
       /\ errorQueue[t].targetPath.dir \in ErrorDirectories
       /\ errorQueue[t].targetPath.base =
            PathBasename(errorQueue[t].sourcePath)
  /\ \A i \in Listed :
       /\ fstate[i].st = "skipped" => ~matchedMappedFields(i).found
       /\ Cardinality(TasksTo(i, fieldConfigErrorDirectory)) =
            (IF fstate[i].st = "skipped" THEN 1 ELSE 0)
       /\ Cardinality(TasksTo(i, miscErrorDirectory)) = MiscEnqueues(i)
       /\ Cardinality(TasksTo(i, dbInsertionErrorDirectory)) =
            Cardinality(RowsWith(i, "insertFail"))
       /\ ~matchedMappedFields(i).found =>
            TasksOf(i) = TasksTo(i, fieldConfigErrorDirectory)

\* every push appends a task for a listed file whose target is one of the
\* three error directories joined with the base name of the source
C26_PushStep ==
  Pushes =>
    LET task == errorQueue'[Len(errorQueue')] IN
    /\ \E i \in Listed : task.sourcePath = filePath(i)
    /\ \E d \in ErrorDirectories :
         task.targetPath = PathJoin(d, PathBasename(task.sourcePath))

\* C26: the failure kind determines the error directory of every task: one
\* task towards fieldConfigErrorDirectory for a file without mapping and
\* none otherwise, one towards miscErrorDirectory per parse, coercion or
\* validation failure, one towards dbInsertionErrorDirectory per rejected
\* insert; the target path is the directory joined with the base name of
\* the source path.
C26_DirectoryByFailureKind ==
  [](C26_TasksByKind) /\ [][C26_PushStep]_vars

\* a run that met the three kinds: a file without mapping, and a file with
\* a rejected insert followed by a parse error
C26_Witness ==
  /\ pc = "done"
  /\ \E i \in Listed : Cardinality(TasksOf(i)) = 1 /\ fstate[i].st = "skipped"
  /\ \E i \in Listed :
       /\ fstate[i].destroyed
       /\ Cardinality(TasksTo(i, miscErrorDirectory)) = 1
       /\ Cardinality(TasksTo(i, dbInsertionErrorDirectory)) = 1
       /\ TasksTo(i, fieldConfigErrorDirectory) = {}

Beyond(filename, entry) == entry.spacing + 1 > Len(Split(filename, "_"))

WithinParts(entry) == ~Beyond(call.filename, entry)

\* C29: an entry whose part index is beyond the last part of the split file
\* name never matches and never raises; the search goes on with the other
\* entries, so the result is the one the map without those entries gives,
\* and it is null when none of the other entries matches.
C29_BeyondLastPartSkipped ==
  call.op = "determineFieldMapping" =>
    /\ ret.status # "threw"
    /\ ret.status = "returned" =>
         /\ ret.value =
              determineFieldMapping(call.filename,
                                    SelectSeq(call.map, WithinParts))
         /\ ret.value.found <=>
              \E n \in 1..Len(call.map) :
                /\ WithinParts(call.map[n])
                /\ Split(call.filename, "_")[call.map[n].spacing + 1]
                     = call.map[n].key
         /\ ret.value.found =>
              \E n \in MatchingEntries(call.filename, call.map) :
                /\ WithinParts(call.map[n])
                /\ ret.value.fields = call.map[n].fields

\* the first entry visited is beyond the parts, a later one matches
C29_Witness ==
  /\ call.op = "determineFieldMapping"
  /\ ret.status = "returned"
  /\ Len(call.map) = 2
  /\ Beyond(call.filename, ObjectEntries(call.map)[1])
  /\ ~Beyond(call.filename, ObjectEntries(call.map)[2])
  /\ ret.value.found
  /\ ret.value.fields = ObjectEntries(call.map)[2].fields
  /\ ret.value.fields # ObjectEntries(call.map)[1].fields

\* processFiles of this cycle ended through its critical catch
CriticalInCycle == Started("processFiles") /\ "critical" \in logged

\* after the critical catch the promise of processFiles is resolved, so the
\* handler can resume; once it has, the later flagged stages have started
\* in their order, and the handler's catch was reached, if at all, from
\* emptyTheDirectory
C30_CriticalState ==
  CriticalInCycle =>
    /\ pc = "done"
    /\ outcome = "resolved"
    /\ stage # "checking"
    /\ stage = "caught" => Started("emptyTheDirectory")
    /\ stage # "processFiles" =>
         /\ flags["runZipAndMove"] => Started("zipAndMoveDirectory")
         /\ (flags["runEmptyTheDirectory"]
               /\ stage \notin {"zipAndMoveDirectory", "crashed"})
              => Started("emptyTheDirectory")
    /\ stage = "completed" => trace = EventsFrom(1)

\* the step that leaves processFiles after the critical catch goes to the
\* next flagged stage, or to the end of the cycle
C30_CriticalStep ==
  (stage = "processFiles" /\ "critical" \in logged /\ stage' # stage) =>
    /\ stage' = Target("processFiles")
    /\ stage' \in {"zipAndMoveDirectory", "emptyTheDirectory", "completed"}
    /\ stage' = "zipAndMoveDirectory" <=> flags["runZipAndMove"]

\* C30: when processFiles ends through its critical-error path the handler
\* takes the run as complete: the cycle goes on to zip-and-move and to
\* empty-the-directory when they are enabled, and the shutdown/exit path is
\* not taken because of processFiles.
C30_CriticalRunProceeds ==
  [](C30_CriticalState) /\ [][C30_CriticalStep]_vars

C30_Witness ==
  /\ CriticalInCycle
  /\ flags["runZipAndMove"]
  /\ flags["runEmptyTheDirectory"]
  /\ stage = "completed"
  /\ trace = EventsFrom(1)
  /\ Len(trace) = 6

\* the files in the error directories
Quarantined == {p \in fsFiles : p.dir \in ErrorDirectories}

\* processFiles of this cycle has returned to the handler
ProcessFilesEnded ==
  \E n \in 1..Len(trace) : trace[n] = [stage |-> "processFiles", ev |-> "end"]

\* the cycle has ended: the handler has returned or has reached its catch
CycleEnded == stage \in {"completed", "caught"}

\* C32: quarantine moves a file and never deletes it: every file queued for
\* relocation during a cycle is in one of the error directories when the
\* cycle ends, that is, one of its tasks has moved it there and it is still
\* there.
C32_QuarantinedAtEnd ==
  (CycleEnded /\ ProcessFilesEnded) =>
    \A t \in 1..Len(errorQueue) :
      \E u \in SameSource(t) :
        /\ errorQueue[u].status = "moved"
        /\ errorQueue[u].targetPath \in Quarantined

\* the fields of the schema resolved for file i
SchemaFields(i) ==
  {matchedMappedFields(i).fields[n] :
     n \in 1..Len(matchedMappedFields(i).fields)}

\* the Record has every field of the schema of file i and the file's name
Complete(i, dataObject) ==
  /\ SchemaFields(i) \subseteq DOMAIN dataObject
  /\ "file_name" \in DOMAIN dataObject
  /\ dataObject["file_name"] = PathBasename(filePath(i))

\* row r of file i coerces and validates
StoreReady(i, r) ==
  /\ ~RowObject(i, r).threw
  /\ Complete(i, RowObject(i, r).obj)

\* what is at the store, in flight or accepted, is complete; a row recorded
\* as a coercion or validation failure was never handed to the store
C33_AtTheStore ==
  \A i \in Listed :
    /\ \A r \in inflight[i] : StoreReady(i, r)
    /\ \A k \in 1..Len(inserted[i]) : Complete(i, inserted[i][k])
    /\ Len(inserted[i]) = Cardinality(RowsWith(i, "inserted"))
    /\ \A k \in 1..Len(rowOutcome[i]) :
         IF rowOutcome[i][k].result \in {"inserted", "insertFail"}
         THEN StoreReady(i, rowOutcome[i][k].row)
         ELSE /\ ~StoreReady(i, rowOutcome[i][k].row)
              /\ rowOutcome[i][k].row \notin inflight[i]

\* an insert is attempted only for the row just taken, and only when it is
\* complete; the step that records a failed row attempts none
C33_InsertStep ==
  \A i \in FileIds :
    /\ \A r \in inflight'[i] \ inflight[i] :
         /\ r = fstate[i].row + 1
         /\ StoreReady(i, r)
    /\ (/\ Len(rowOutcome'[i]) > Len(rowOutcome[i])
        /\ rowOutcome'[i][Len(rowOutcome'[i])].result
             \in {"coerceFail", "invalid"})
         => inflight' = inflight /\ inserted' = inserted

\* C33: only validated records reach the store: every record handed to the
\* store has every field of the file's schema and file_name equal to the
\* base name of the file, and no insert is attempted for a row whose
\* coercion or validation failed.
C33_OnlyValidatedRecords ==
  [](C33_AtTheStore) /\ [][C33_InsertStep]_vars

C33_Witness ==
  \E i, j \in Listed :
    /\ Len(inserted[i]) = 1
    /\ Complete(i, inserted[i][1])
    /\ fstate[j].st = "completed"
    /\ RowsWith(j, "invalid") # {}
    /\ RowsWith(j, "coerceFail") # {}
    /\ inserted[j] = <<>>

\* the places where the file listed as i is found
Places(i) == {p \in fsFiles : PathBasename(p) = Name(i)}

\* a task of the queue has finished for file i, some moved and some failed
MovedAndFailed(i) ==
  /\ \E t \in TasksOf(i) : errorQueue[t].status = "moved"
  /\ \E t \in TasksOf(i) : errorQueue[t].status = "failed"

C35_EarliestTaskWins ==
  \A i \in Listed :
    \A t \in TasksOf(i) :
      errorQueue[t].status = "moved" =>
        \A u \in TasksOf(i) :
          u < t => errorQueue[u].targetPath = errorQueue[t].targetPath

\* file i has a mapping, was read to its end, and every row of it was
\* accepted by the store
EverythingInserted(i) ==
  /\ matchedMappedFields(i).found
  /\ Ending(i) = "end"
  /\ fstate[i].st = "completed"
  /\ Rows(i) # <<>>
  /\ \A r \in 1..Len(Rows(i)) :
       \E k \in RowsWith(i, "inserted") : rowOutcome[i][k].row = r

\* C36: a file for which a mapping resolves and whose every row coerces,
\* validates and is inserted is never queued for relocation and is in the
\* watched directory, and only there, from then on and when processFiles
\* resolves.
C36_CleanFileUntouched ==
  \A i \in Listed :
    EverythingInserted(i) =>
      /\ TasksOf(i) = {}
      /\ Places(i) = {filePath(i)}

C36_Witness ==
  /\ pc = "done"
  /\ outcome = "resolved"
  /\ \E i, j \in Listed :
       /\ EverythingInserted(i)
       /\ Places(i) = {filePath(i)}
       /\ \E t \in TasksOf(j) : errorQueue[t].status = "moved"

\* a wait for the drain has a task to wait for, and a process that has
\* ended without resolving the run did so on the error of a read stream
C37_DrainHasTask ==
  /\ pc = "draining" =>
       QueueLength(errorQueue) + QueueRunning(errorQueue) > 0
  /\ pc = "crashed" =>
       \E i \in Listed : Ending(i) = "readError" /\ fstate[i].st = "reading"

\* the wait is entered with a task pending or running, and it is left in
\* the step in which the last task finishes
C37_DrainStep ==
  /\ (pc # "draining" /\ pc' = "draining") =>
       QueueLength(errorQueue) + QueueRunning(errorQueue) > 0
  /\ (pc = "draining" /\
        QueueLength(errorQueue') + QueueRunning(errorQueue') = 0) =>
       pc' = "done" /\ outcome' = "resolved"
  /\ (pc = "draining" /\ pc' # "draining") =>
       /\ pc' = "done"
       /\ QueueLength(errorQueue) + QueueRunning(errorQueue) = 1
       /\ QueueLength(errorQueue') + QueueRunning(errorQueue') = 0

\* the run is over: resolved, or the process ended by a read stream's error
C37_Over ==
  \/ pc = "done" /\ outcome = "resolved"
  \/ pc = "crashed"

Deletes ==
  /\ stage = "emptyTheDirectory"
  /\ SourceEntries # {}
  /\ SourceEntries' = {}

\* C38: in a scheduled cycle the watched directory is emptied only after an
\* archive of it was created and moved to the destination directory in the
\* same cycle: no file is deleted without a backup.
C38_EmptiedOnlyAfterBackup ==
  [][Deletes => (/\ destinationFilePath \in fsFiles
                 /\ "log: Folder zipping and moving completed" \in zipLog)]_vars

\* an invocation of the handler is in its catch
Thrown == \E k \in InvocationIds : invocations[k].st = "shutdown"

\* in the catch the error was logged and gracefulShutdown was called
C31_CatchState ==
  \A k \in InvocationIds :
    invocations[k].st = "shutdown" =>
      /\ "Error during scheduled task execution" \in logged
      /\ jobCancelled
      /\ k \in shutdownWaiters

\* the catch is entered from the emptiness check or from emptyTheDirectory,
\* never from zipAndMoveDirectory, and no invocation starts after it
C31_CatchStep ==
  /\ \A k \in InvocationIds :
       (invocations[k].st # "shutdown" /\ invocations'[k].st = "shutdown")
         => invocations[k].st \in {"checking", "emptyTheDirectory"}
  /\ Thrown => Len(invocations') = Len(invocations)

\* C31: when a stage of a scheduled cycle throws to the handler (the
\* emptiness check or emptyTheDirectory), the error is logged, gracefulShutdown
\* is performed and the process exits with code 1, so that no later cycle
\* starts; a failure inside zipAndMoveDirectory never takes this path.
C31_ThrowExitsWithOne ==
  /\ [](C31_CatchState)
  /\ [][C31_CatchStep]_vars
  /\ Thrown ~> (exitCode = "1")

\* two invocations are in the stages of a cycle together
Overlap == Cardinality(InCycle) > 1

\* C39: scheduled cycles never overlap: a firing of the timer while an earlier
\* cycle is running starts no second processFiles, zip and empty sequence on
\* the watched directory, and no row of a file is inserted twice in the life
\* of the process.
C39_CyclesNeverOverlap ==
  /\ ~Overlap
  /\ \A i \in dirEntries : Len(inserted[i]) <= Len(Rows(i))

====
